---- MODULE Spec2Model ----
(***************************************************************************)
(* Model of the snake server: the tick loop (server/game.go), the session  *)
(* endpoints and the metadata cache of the state frames (the engine        *)
(* network code in mobile/mobile.go, lines 98 onwards).                    *)
(*                                                                         *)
(* Session layer (specification Spec).  The tick task is a process with a  *)
(* program counter: it waits for the ticker, drains the inbound channels   *)
(* one select iteration at a time, then runs the rest of the tick.         *)
(* Readers, writers and stats requesters are processes of their own and    *)
(* meet the tick task only in the channels.  A snake's coordinates are     *)
(* kept as a zone: two heads are within ViewDist + 1000 of one another on  *)
(* both axes iff they are in the same zone.                                *)
(***************************************************************************)
EXTENDS Integers, Sequences, FiniteSets, TLC

\* ------------------------------------------------------------------------
\* Bounds of the session layer
\* ------------------------------------------------------------------------
MaxSessions == 1
SessionSlots == 2
MaxMsgs == 3
MaxFrame == 3
MaxStatsReqs == 1
NumZones == 2
\* Bounds of the backpressure scenario (SpecQueue) and of the stats
\* scenario (SpecStats).
QueueMaxFrame == 18
StatsMaxFrame == 2
WorldMaxFrame == 8
MaxGameInputs == 1
\* Bounds of the long run (SpecHover): its frames, the inputs of its client
\* and the positions at which the client turns round.
HoverMaxFrame == 124
HoverInputs == 4
LeftTurn == 193000
RightTurn == 212000
\* Bounds of the rebirth scenario (SpecRebirth): the ticks an AI stays dead
\* and the frames followed.
RebirthTicks == 4
RebirthMaxFrame == 127
\* Bound of the crowd scenario (SpecCrowd): the clients that join.
CrowdSize == 3
\* Bound of the corpses (SpecKill): the longest snake that is killed.
CorpseMaxLen == 24
\* Bound of the shutdown scenario (SpecStop): the frames followed.
StopMaxFrame == 2
\* Bounds of the replay (SpecReplay): the messages of the client and the
\* frames followed.
ScriptLen == 2
ReplayMaxFrame == 2
\* Bounds of the id counters (SpecIds): the ids followed from each start.
IdDraws == 6
\* Bound of the reader scenario (SpecFrames): the frames a client sends.
FrameReads == 3
\* Bounds of the names (SpecNames): the characters of the longest name a
\* client sends and the bytes of its widest character.
NameChars == 17
CharWidth == 3
\* Bound of the embedding scenario (SpecEmbed): the calls of Start and Stop.
EmbedCalls == 6
\* Bounds of the population scenario (SpecPopulation): the sessions, the
\* leaves and the frames followed.
PopSize == 4
PopLeaves == 4
PopMaxFrame == 1
\* Bound of the food pass (SpecFood): the pellets of the food list.
FoodListLen == 3
\* Bounds of the tick followed step by step (SpecOrder): its ticks, the
\* clients, and the last frame in which a client sends.
OrderMaxFrame == 120
OrderSize == 1
OrderSendUntil == 1
\* Bounds of one connection followed write by write (SpecConn): the joins
\* its client sends, the broadcasts of the tick task and the pings of its
\* writer.
ConnJoins == 2
ConnBroadcasts == 3
ConnPings == 1

\* ------------------------------------------------------------------------
\* Program constants
\* ------------------------------------------------------------------------
SendChCap == 8
ReadLimit == 512
InputChCap == 2048
JoinChCap == 32
LeaveChCap == 32
RespawnChCap == 32
StatsReqChCap == 4
NetTickRate == 2
FoodSyncRate == 9
MaxNameLen == 15
HeadRadius == 12000
BodyRadius == 10000
FoodRadiusVal == 6000
FoodValueVal == 1000
Pi == 18
ViewDist == 2500000

\* Configuration of the session layer (GameConfig.AICount)
AICount == 3
WorldSize == 1000000
FoodCount == 2
BaseSpeed == 3200
BoostSpeed == 5500
TurnSpeed == 10
MaxBoost == 100000
BoostDrain == 600
BoostRegen == 150
BaseSnakeLen == 10
KillFoodCount == 8
BoundaryMargin == 190000
AIRespawnTicks == 180

Sessions == 1..SessionSlots
\* The ids of the sessions that connect (nextPlayerID).
PlayerIDs == 1..MaxSessions
Zones == 0..(NumZones - 1)
Requesters == 1..MaxStatsReqs

\* Angles are kept in units of 1/10000 rad, the unit of the input frame.
Inputs == {[Angle |-> 0, Boost |-> TRUE], [Angle |-> 15708, Boost |-> FALSE]}
\* createSnake draws its angle from [0, 2*pi); one representative.
SpawnAngles == {31416}

\* Names are sequences of character codes.
LongName == [i \in 1..17 |-> 7]
RawNames == {<< >>, LongName}
PlayerName == <<80>>
AIName(i) == <<100 + i>>

VARIABLES
    frame, netTick, tickPc, replyTo,
    snakes, players, aiIDCounter, playerIDCounter,
    totalJoins, totalLeaves, peakPlayers,
    pname, psnake, knownSnakes, sendCh, done,
    inputCh, joinCh, leaveCh, respawnCh, statsReqCh, replyCh,
    rdPc, wrPc, reqPc,
    sentIn, consumed, msgsSent,
    owed, metaSeen, respawned, enq, wire, lastDropped

worldVars == <<frame, netTick, snakes, players, aiIDCounter,
               totalJoins, totalLeaves, peakPlayers, psnake, knownSnakes>>
chanVars == <<inputCh, joinCh, leaveCh, respawnCh, statsReqCh, replyCh, sendCh>>
taskVars == <<tickPc, replyTo, rdPc, wrPc, reqPc, playerIDCounter, pname, done>>
ghostVars == <<sentIn, consumed, msgsSent,
               owed, metaSeen, respawned, enq, wire, lastDropped>>
sessionVars == <<worldVars, chanVars, taskVars, ghostVars>>

\* The world with its geometry: frame, snakes, foods, totalKills.
VARIABLE game

vars == <<sessionVars, game>>

\* ------------------------------------------------------------------------
\* Helpers
\* ------------------------------------------------------------------------
RemoveAt(s, i) == SubSeq(s, 1, i - 1) \o SubSeq(s, i + 1, Len(s))

SetMin(S) == CHOOSE x \in S : \A y \in S : x <= y

\* A pointer to a Snake is modelled by the uid of the object.
FreshUid(ss) ==
    SetMin({u \in 1..(Len(ss) + 1) : \A i \in 1..Len(ss) : ss[i].uid # u})

SnakeIdx(ss, u) == CHOOSE i \in 1..Len(ss) : ss[i].uid = u

HasSnake(ss, u) == \E i \in 1..Len(ss) : ss[i].uid = u

\* readPump: empty name becomes "Player", names are cut to 15 bytes.
JoinName(raw) ==
    LET name == IF raw = << >> THEN PlayerName ELSE raw
    IN  IF Len(name) > MaxNameLen THEN SubSeq(name, 1, MaxNameLen) ELSE name

\* inSeq and inFrame record the last input applied to the snake: its
\* number among the inputs of its session, and the frame of the drain.
createSnake(ss, name, zone, angle, isAI, pid) ==
    [uid |-> FreshUid(ss), id |-> pid, isAI |-> isAI, alive |-> TRUE,
     name |-> name, zone |-> zone, tgt |-> angle, boosting |-> FALSE,
     inSeq |-> 0, inFrame |-> 0]

\* ------------------------------------------------------------------------
\* State serialization: visible set and metadata cache
\* ------------------------------------------------------------------------
ViewZone(ss, own) ==
    IF own # 0 /\ HasSnake(ss, own) THEN ss[SnakeIdx(ss, own)].zone ELSE 0

Visible(ss, own) ==
    LET c == ViewZone(ss, own)
        mine == IF own # 0 /\ HasSnake(ss, own)
                THEN <<ss[SnakeIdx(ss, own)]>> ELSE << >>
        IsSeen(s) == s.uid # own /\ s.alive /\ s.zone = c
    IN  mine \o SelectSeq(ss, IsSeen)

serializeRemembering(ss, own, known, includeFood) ==
    LET visible == Visible(ss, own)
    IN  [frame |-> [food |-> includeFood, summary |-> FALSE,
                    snakes |-> [i \in 1..Len(visible) |->
                                  [id |-> visible[i].id,
                                   hasMeta |-> visible[i].id \notin known]]],
         known |-> known \cup {visible[i].id : i \in 1..Len(visible)}]

\* The frame and the known set that replaces the session's.
serializeStateFor(ss, own, known, includeFood) ==
    LET visible == Visible(ss, own)
    IN  [frame |-> [food |-> includeFood, summary |-> FALSE,
                    snakes |-> [i \in 1..Len(visible) |->
                                  [id |-> visible[i].id,
                                   hasMeta |-> visible[i].id \notin known]]],
         known |-> {visible[i].id : i \in 1..Len(visible)}]

\* serializeState, the header: byte 0 is the type (1, state), byte 1 the
\* flags: bit 0 when food is included, bit 1 set by broadcast when the
\* summary is appended.
HeaderBytes(f) ==
    <<1, (IF f.food THEN 1 ELSE 0) + (IF f.summary THEN 2 ELSE 0)>>

FrameIds(f) == {f.snakes[i].id : i \in 1..Len(f.snakes)}
FrameMeta(f) == {f.snakes[i].id : i \in {j \in 1..Len(f.snakes) : f.snakes[j].hasMeta}}

SendOrWait(q) == IF Len(q) < SendChCap THEN "sent" ELSE "wait"

\* select { case p.sendCh <- data: default: }: the case the tick task
\* takes.  A send that is not ready and has no default would make the task
\* wait in it ("wait").
TrySend(q) == IF Len(q) < SendChCap THEN "sent" ELSE "default"

CanPush(q) == TrySend(q) = "sent"
Push(q, f) == IF CanPush(q) THEN Append(q, f) ELSE q

\* The frame as it is queued, with its bookkeeping for the properties:
\* n, its number among the session's enqueued frames; bare, the ids it
\* carries without metadata that no earlier enqueued frame carried with
\* metadata; miss, the ids owed from dropped broadcast frames that it shows
\* without metadata; stale, the ids of snakes respawned since the session
\* was last sent a frame showing them that it shows without metadata.
Stamp(f, p) ==
    [food |-> f.food, summary |-> f.summary, snakes |-> f.snakes,
     n |-> enq[p] + 1,
     bare |-> (FrameIds(f) \ FrameMeta(f)) \ metaSeen[p],
     miss |-> (owed[p] \cap FrameIds(f)) \ FrameMeta(f),
     stale |-> (respawned[p] \cap FrameIds(f)) \ FrameMeta(f)]

InitSessions ==
    /\ frame = 0
    /\ netTick = 0
    /\ tickPc = "wait"
    /\ replyTo = 0
    /\ snakes = [i \in 1..AICount |->
                   [uid |-> i, id |-> -i, isAI |-> TRUE, alive |-> TRUE,
                    name |-> AIName(i), zone |-> i % NumZones,
                    tgt |-> 31416, boosting |-> FALSE, inSeq |-> 0,
                    inFrame |-> 0]]
    /\ players = {}
    /\ aiIDCounter = AICount
    /\ playerIDCounter = 0
    /\ totalJoins = 0
    /\ totalLeaves = 0
    /\ peakPlayers = 0
    /\ pname = [p \in Sessions |-> << >>]
    /\ psnake = [p \in Sessions |-> 0]
    /\ knownSnakes = [p \in Sessions |-> {}]
    /\ sendCh = [p \in Sessions |-> << >>]
    /\ done = [p \in Sessions |-> FALSE]
    /\ inputCh = << >>
    /\ joinCh = << >>
    /\ leaveCh = << >>
    /\ respawnCh = << >>
    /\ statsReqCh = << >>
    /\ replyCh = [r \in Requesters |-> << >>]
    /\ rdPc = [p \in Sessions |-> "none"]
    /\ wrPc = [p \in Sessions |-> "none"]
    /\ reqPc = [r \in Requesters |-> "idle"]
    /\ sentIn = [p \in Sessions |-> << >>]
    /\ consumed = [p \in Sessions |-> 0]
    /\ msgsSent = [p \in Sessions |-> 0]
    /\ owed = [p \in Sessions |-> {}]
    /\ metaSeen = [p \in Sessions |-> {}]
    /\ respawned = [p \in Sessions |-> {}]
    /\ enq = [p \in Sessions |-> 0]
    /\ wire = [p \in Sessions |-> << >>]
    /\ lastDropped = [p \in Sessions |-> FALSE]

\* ------------------------------------------------------------------------
\* Session endpoints (HandleWS, readPump, writePump)
\* ------------------------------------------------------------------------
\* HandleWS up to the start of the pumps: a new Player with the next id.
Connect(maxSessions) ==
    /\ tickPc = "wait"
    /\ playerIDCounter < maxSessions
    /\ LET p == playerIDCounter + 1
       IN  /\ playerIDCounter' = p
           /\ pname' = [pname EXCEPT ![p] = <<80, p>>]
           /\ rdPc' = [rdPc EXCEPT ![p] = "reading"]
           /\ wrPc' = [wrPc EXCEPT ![p] = "run"]
    /\ UNCHANGED <<game, worldVars, chanVars, ghostVars, tickPc, replyTo, reqPc, done>>

\* readPump, text frame {"t":"join"}: the reader stores the name in the
\* Player and sends the Player on joinCh.
ReaderJoin(p) ==
    /\ tickPc = "wait"
    /\ rdPc[p] = "reading"
    /\ msgsSent[p] < MaxMsgs
    /\ Len(joinCh) < JoinChCap
    /\ \E raw \in RawNames : pname' = [pname EXCEPT ![p] = JoinName(raw)]
    /\ joinCh' = Append(joinCh, p)
    /\ msgsSent' = [msgsSent EXCEPT ![p] = @ + 1]
    /\ UNCHANGED <<game, worldVars, inputCh, leaveCh, respawnCh, statsReqCh, replyCh,
                   sendCh, tickPc, replyTo, rdPc, wrPc, reqPc, playerIDCounter,
                   done, sentIn, consumed, owed, metaSeen, respawned, enq,
                   wire, lastDropped>>

\* readPump, text frame {"t":"respawn"}.
ReaderRespawn(p) ==
    /\ tickPc = "wait"
    /\ rdPc[p] = "reading"
    /\ msgsSent[p] < MaxMsgs
    /\ Len(respawnCh) < RespawnChCap
    /\ respawnCh' = Append(respawnCh, p)
    /\ msgsSent' = [msgsSent EXCEPT ![p] = @ + 1]
    /\ UNCHANGED <<game, worldVars, inputCh, joinCh, leaveCh, statsReqCh, replyCh,
                   sendCh, taskVars, sentIn, consumed, owed,
                   metaSeen, respawned, enq, wire, lastDropped>>

\* readPump, binary frame of 4 bytes with type 2: an input message.
ReaderInput(p) ==
    /\ tickPc = "wait"
    /\ rdPc[p] = "reading"
    /\ msgsSent[p] < MaxMsgs
    /\ Len(inputCh) < InputChCap
    /\ \E in \in Inputs :
         /\ inputCh' = Append(inputCh, [PlayerID |-> p, Angle |-> in.Angle,
                                        Boost |-> in.Boost,
                                        n |-> Len(sentIn[p]) + 1])
         /\ sentIn' = [sentIn EXCEPT ![p] = Append(@, in)]
    /\ msgsSent' = [msgsSent EXCEPT ![p] = @ + 1]
    /\ UNCHANGED <<game, worldVars, joinCh, leaveCh, respawnCh, statsReqCh, replyCh,
                   sendCh, taskVars, consumed, owed, metaSeen, respawned, enq, wire,
                   lastDropped>>

\* readPump returns on a read error; HandleWS closes p.done.
ReaderExit(p) ==
    /\ tickPc = "wait"
    /\ rdPc[p] = "reading"
    /\ rdPc' = [rdPc EXCEPT ![p] = "closing"]
    /\ done' = [done EXCEPT ![p] = TRUE]
    /\ UNCHANGED <<game, worldVars, chanVars, ghostVars, tickPc, replyTo, wrPc, reqPc,
                   playerIDCounter, pname>>

\* HandleWS: game.leaveCh <- id, then conn.Close().
SendLeave(p) ==
    /\ tickPc = "wait"
    /\ rdPc[p] = "closing"
    /\ Len(leaveCh) < LeaveChCap
    /\ leaveCh' = Append(leaveCh, p)
    /\ rdPc' = [rdPc EXCEPT ![p] = "gone"]
    /\ UNCHANGED <<game, worldVars, inputCh, joinCh, respawnCh, statsReqCh, replyCh,
                   sendCh, ghostVars, tickPc, replyTo, wrPc, reqPc,
                   playerIDCounter, pname, done>>

DequeueNewest(q) == [msg |-> q[Len(q)], rest |-> SubSeq(q, 1, Len(q) - 1)]

\* What the writer takes from its queue: the oldest frame.
Dequeue(q) == [msg |-> Head(q), rest |-> Tail(q)]

\* writePump, case msg := <-p.sendCh: the frame is written to the wire.
WriterWrite(p) ==
    /\ tickPc = "wait"
    /\ wrPc[p] = "run"
    /\ sendCh[p] # << >>
    /\ LET d == Dequeue(sendCh[p])
       IN  /\ sendCh' = [sendCh EXCEPT ![p] = d.rest]
           /\ wire' = [wire EXCEPT ![p] = Append(@, d.msg.n)]
    /\ UNCHANGED <<game, worldVars, inputCh, joinCh, leaveCh, respawnCh, statsReqCh,
                   replyCh, taskVars, sentIn, consumed, msgsSent, owed,
                   metaSeen, respawned, enq, lastDropped>>

\* writePump returns: case <-p.done, or a write (of a frame or of a ping)
\* has failed.
WriterExit(p) ==
    /\ tickPc = "wait"
    /\ wrPc[p] = "run"
    /\ wrPc' = [wrPc EXCEPT ![p] = "exit"]
    /\ UNCHANGED <<game, worldVars, chanVars, ghostVars, tickPc, replyTo, rdPc, reqPc,
                   playerIDCounter, pname, done>>

\* GetStats: a fresh reply channel is sent on statsReqCh, then the
\* requester waits for the snapshot on it.
StatsRequest(r) ==
    /\ tickPc = "wait"
    /\ reqPc[r] = "idle"
    /\ Len(statsReqCh) < StatsReqChCap
    /\ statsReqCh' = Append(statsReqCh, r)
    /\ reqPc' = [reqPc EXCEPT ![r] = "waiting"]
    /\ UNCHANGED <<game, worldVars, inputCh, joinCh, leaveCh, respawnCh, replyCh,
                   sendCh, ghostVars, tickPc, replyTo, rdPc, wrPc,
                   playerIDCounter, pname, done>>

StatsReceive(r) ==
    /\ tickPc = "wait"
    /\ reqPc[r] = "waiting"
    /\ replyCh[r] # << >>
    /\ replyCh' = [replyCh EXCEPT ![r] = Tail(@)]
    /\ reqPc' = [reqPc EXCEPT ![r] = "got"]
    /\ UNCHANGED <<game, worldVars, inputCh, joinCh, leaveCh, respawnCh, statsReqCh,
                   sendCh, ghostVars, tickPc, replyTo, rdPc, wrPc,
                   playerIDCounter, pname, done>>

\* ------------------------------------------------------------------------
\* The tick task (Run, tick, drainMessages and the handlers)
\* ------------------------------------------------------------------------
\* Run: the ticker fires; tick increments the frame and starts the drain.
TickStart(maxFrame) ==
    /\ tickPc = "wait"
    /\ frame < maxFrame
    /\ frame' = frame + 1
    /\ tickPc' = "drain"
    /\ UNCHANGED <<game, netTick, snakes, players, aiIDCounter, totalJoins, totalLeaves,
                   peakPlayers, psnake, knownSnakes, chanVars, ghostVars, replyTo,
                   rdPc, wrPc, reqPc, playerIDCounter, pname, done>>

\* drainMessages: the receive cases of the select that have a message.
ReadyCases ==
    {c \in {"input", "join", "leave", "respawn", "stats"} :
        \/ c = "input" /\ inputCh # << >>
        \/ c = "join" /\ joinCh # << >>
        \/ c = "leave" /\ leaveCh # << >>
        \/ c = "respawn" /\ respawnCh # << >>
        \/ c = "stats" /\ statsReqCh # << >>}

DrainCasesNoDefault == ReadyCases

\* A drain whose select has no case for the stats-request channel.
DrainCasesNoStats ==
    IF ReadyCases \ {"stats"} = {} THEN {"default"} ELSE ReadyCases \ {"stats"}

\* drainMessages: the cases the select may take; default when no channel
\* has a message.  With no case to take the task would wait in the select.
DrainCases == IF ReadyCases = {} THEN {"default"} ELSE ReadyCases

RecvNewestInput(ch) == [msg |-> ch[Len(ch)], rest |-> SubSeq(ch, 1, Len(ch) - 1)]

\* Which message of the input channel a drain iteration receives.
RecvInput(ch) == [msg |-> Head(ch), rest |-> Tail(ch)]

\* drainMessages, case msg := <-g.inputCh.
DrainInput ==
    /\ tickPc = "drain"
    /\ "input" \in DrainCases
    /\ LET r == RecvInput(inputCh)
           msg == r.msg
           p == msg.PlayerID
           ok == /\ p \in players
                 /\ psnake[p] # 0
                 /\ snakes[SnakeIdx(snakes, psnake[p])].alive
       IN  /\ inputCh' = r.rest
           /\ consumed' = [consumed EXCEPT ![p] = @ + 1]
           /\ snakes' = IF ok
                        THEN [snakes EXCEPT ![SnakeIdx(snakes, psnake[p])] =
                                [@ EXCEPT !.tgt = msg.Angle,
                                          !.boosting = msg.Boost,
                                          !.inSeq = msg.n,
                                          !.inFrame = frame]]
                        ELSE snakes
    /\ UNCHANGED <<game, frame, netTick, players, aiIDCounter, totalJoins, totalLeaves,
                   peakPlayers, psnake, knownSnakes, joinCh, leaveCh, respawnCh,
                   statsReqCh, replyCh, sendCh, taskVars, sentIn, msgsSent, owed, metaSeen, respawned, enq, wire, lastDropped>>

KeepAIs(ss) == ss

\* handleJoin: the first alive AI is removed from the list.
RemoveFirstAliveAI(ss) ==
    LET ais == {i \in 1..Len(ss) : ss[i].isAI /\ ss[i].alive}
    IN  IF ais = {} THEN ss ELSE RemoveAt(ss, SetMin(ais))

\* handleJoin: what becomes of the session's known set once the initial
\* frame has been serialized, whether or not the frame was queued.
JoinKnown(old, new, pushed) == new

\* drainMessages, case p := <-g.joinCh: handleJoin.
DrainJoin ==
    /\ tickPc = "drain"
    /\ "join" \in DrainCases
    /\ \E z \in Zones, a \in SpawnAngles :
         LET p == Head(joinCh)
             ss1 == RemoveFirstAliveAI(snakes)
             snake == createSnake(ss1, pname[p], z, a, FALSE, p)
             ss2 == Append(ss1, snake)
             ser == serializeStateFor(ss2, snake.uid, knownSnakes[p], TRUE)
             f == Stamp(ser.frame, p)
             pushed == CanPush(sendCh[p])
         IN  /\ joinCh' = Tail(joinCh)
             /\ snakes' = ss2
             /\ psnake' = [psnake EXCEPT ![p] = snake.uid]
             /\ players' = players \cup {p}
             /\ totalJoins' = totalJoins + 1
             /\ peakPlayers' = IF Cardinality(players \cup {p}) > peakPlayers
                               THEN Cardinality(players \cup {p}) ELSE peakPlayers
             /\ knownSnakes' = [knownSnakes EXCEPT
                                  ![p] = JoinKnown(@, ser.known, pushed)]
             /\ sendCh' = [sendCh EXCEPT ![p] = Push(@, f)]
             /\ enq' = [enq EXCEPT ![p] = IF pushed THEN @ + 1 ELSE @]
             /\ metaSeen' = [metaSeen EXCEPT
                               ![p] = IF pushed THEN @ \cup FrameMeta(f) ELSE @]
             /\ owed' = [owed EXCEPT ![p] = IF pushed THEN {} ELSE @]
             /\ respawned' = [respawned EXCEPT
                                ![p] = IF pushed THEN @ \ FrameIds(f) ELSE @]
             /\ lastDropped' = [lastDropped EXCEPT ![p] = ~pushed]
             /\ tickPc' = IF TrySend(sendCh[p]) = "wait" THEN "send" ELSE "drain"
    /\ UNCHANGED <<game, frame, netTick, aiIDCounter, totalLeaves, inputCh, leaveCh,
                   respawnCh, statsReqCh, replyCh, replyTo, rdPc, wrPc, reqPc,
                   playerIDCounter, pname, done, sentIn, consumed, msgsSent,
                   wire>>

registeredAlways(id) == TRUE

\* handleLeave: p, ok := g.players[id]
registered(id) == id \in players

\* drainMessages, case id := <-g.leaveCh: handleLeave.
DrainLeave ==
    /\ tickPc = "drain"
    /\ "leave" \in DrainCases
    /\ LET id == Head(leaveCh)
       IN  /\ leaveCh' = Tail(leaveCh)
           /\ IF ~registered(id)
              THEN UNCHANGED <<snakes, players, aiIDCounter, totalLeaves>>
              ELSE /\ totalLeaves' = totalLeaves + 1
                   /\ players' = players \ {id}
                   /\ IF psnake[id] # 0
                      THEN \E z \in Zones, a \in SpawnAngles :
                             LET ss1 == IF HasSnake(snakes, psnake[id])
                                        THEN RemoveAt(snakes, SnakeIdx(snakes, psnake[id]))
                                        ELSE snakes
                                 ai == createSnake(ss1, AIName(1), z, a, TRUE,
                                                   -(aiIDCounter + 1))
                             IN  /\ snakes' = Append(ss1, ai)
                                 /\ aiIDCounter' = aiIDCounter + 1
                      ELSE UNCHANGED <<snakes, aiIDCounter>>
    /\ UNCHANGED <<game, frame, netTick, totalJoins, peakPlayers, psnake, knownSnakes,
                   inputCh, joinCh, respawnCh, statsReqCh, replyCh, sendCh,
                   taskVars, ghostVars>>

respawnRegistered(id) == id \in players /\ psnake[id] # 0

\* handleRespawn: the request is valid when the session is registered and
\* its snake is dead.
canRespawn(id) ==
    /\ id \in players
    /\ psnake[id] # 0
    /\ ~snakes[SnakeIdx(snakes, psnake[id])].alive

\* drainMessages, case id := <-g.respawnCh: handleRespawn.
DrainRespawn ==
    /\ tickPc = "drain"
    /\ "respawn" \in DrainCases
    /\ LET id == Head(respawnCh)
           valid == canRespawn(id)
       IN  /\ respawnCh' = Tail(respawnCh)
           /\ IF ~valid
              THEN UNCHANGED <<snakes, psnake, knownSnakes, respawned>>
              ELSE \E z \in Zones, a \in SpawnAngles :
                     LET ss1 == RemoveAt(snakes, SnakeIdx(snakes, psnake[id]))
                         snake == createSnake(ss1, pname[id], z, a, FALSE, id)
                     IN  /\ snakes' = Append(ss1, snake)
                         /\ psnake' = [psnake EXCEPT ![id] = snake.uid]
                         /\ knownSnakes' = [q \in Sessions |->
                                              IF q \in players
                                              THEN knownSnakes[q] \ {id}
                                              ELSE knownSnakes[q]]
                         /\ respawned' = [q \in Sessions |->
                                            IF q \in players /\ q # id
                                            THEN respawned[q] \cup {id}
                                            ELSE respawned[q]]
    /\ UNCHANGED <<game, frame, netTick, players, aiIDCounter, totalJoins, totalLeaves,
                   peakPlayers, inputCh, joinCh, leaveCh, statsReqCh, replyCh,
                   sendCh, taskVars, sentIn, consumed, msgsSent, owed, metaSeen,
                   enq, wire, lastDropped>>

\* drainMessages, case replyCh := <-g.statsReqCh: the request is received;
\* the tick task then sends the snapshot on the reply channel.
DrainStats ==
    /\ tickPc = "drain"
    /\ "stats" \in DrainCases
    /\ replyTo' = Head(statsReqCh)
    /\ statsReqCh' = Tail(statsReqCh)
    /\ tickPc' = "reply"
    /\ UNCHANGED <<game, worldVars, inputCh, joinCh, leaveCh, respawnCh, replyCh, sendCh,
                   ghostVars, rdPc, wrPc, reqPc, playerIDCounter, pname, done>>

buildSnapshot ==
    [Frame |-> frame, CurrentPlayers |-> Cardinality(players),
     TotalJoins |-> totalJoins, TotalLeaves |-> totalLeaves,
     PeakPlayers |-> peakPlayers,
     AICount |-> Cardinality({i \in 1..Len(snakes) :
                                 snakes[i].isAI /\ snakes[i].alive})]

\* The reply channel GetStats makes: one-shot, with room for the snapshot.
ReplyChCap == 1

\* replyCh <- g.buildSnapshot()
SendReply ==
    /\ tickPc = "reply"
    /\ Len(replyCh[replyTo]) < ReplyChCap
    /\ replyCh' = [replyCh EXCEPT ![replyTo] = Append(@, buildSnapshot)]
    /\ tickPc' = "drain"
    /\ replyTo' = 0
    /\ UNCHANGED <<game, worldVars, inputCh, joinCh, leaveCh, respawnCh, statsReqCh,
                   sendCh, ghostVars, rdPc, wrPc, reqPc, playerIDCounter, pname,
                   done>>

\* drainMessages, default: every channel is empty, the drain returns.
DrainDefault ==
    /\ tickPc = "drain"
    /\ "default" \in DrainCases
    /\ tickPc' = "world"
    /\ UNCHANGED <<game, worldVars, chanVars, ghostVars, replyTo, rdPc, wrPc, reqPc,
                   playerIDCounter, pname, done>>

\* updateSnake as far as this layer sees it.  Within MaxFrame ticks no
\* snake has more than 12 segments, so the boost test fails and the flag
\* is cleared; invulnerability (120 ticks from a spawn) rules collisions
\* out, and what is left is a human whose new head leaves the margin box:
\* killSnake.  The coordinates that decide it are not kept here, so any
\* alive human may be the one (die = 0: none).
WorldStep(ss, die) ==
    [i \in 1..Len(ss) |->
       IF ss[i].alive
       THEN [ss[i] EXCEPT !.boosting = FALSE,
                          !.alive = ~(ss[i].uid = die /\ ~ss[i].isAI)]
       ELSE ss[i]]

\* broadcast: the known set after the push; a dropped frame restores it.
BroadcastKnown(old, new, pushed) == IF pushed THEN new ELSE old

BroadcastWithoutSummary(ss, p, includeFood, includeSummary) ==
    LET ser == serializeStateFor(ss, psnake[p], knownSnakes[p], includeFood)
    IN  [frame |-> Stamp(ser.frame, p), known |-> ser.known]

\* broadcast, for one session: the serialized frame with the summary flag.
BroadcastFrame(ss, p, includeFood, includeSummary) ==
    LET ser == serializeStateFor(ss, psnake[p], knownSnakes[p], includeFood)
    IN  [frame |-> Stamp([ser.frame EXCEPT !.summary = includeSummary], p),
         known |-> ser.known]

\* drainMessages has returned: the rest of tick, lines 779 to 807.
TickRest ==
    /\ tickPc = "world"
    /\ \E die \in {0} \cup {snakes[i].uid : i \in {j \in 1..Len(snakes) :
                                    snakes[j].alive /\ ~snakes[j].isAI}} :
         LET ss == WorldStep(snakes, die)
             net == frame % NetTickRate = 0
             nt == IF net THEN netTick + 1 ELSE netTick
             includeFood == nt % FoodSyncRate = 0
             includeSummary == nt % 2 = 0
             to == IF net THEN {p \in players : psnake[p] # 0} ELSE {}
             B(p) == BroadcastFrame(ss, p, includeFood, includeSummary)
             pushed(p) == CanPush(sendCh[p])
         IN  /\ snakes' = ss
             /\ netTick' = nt
             /\ sendCh' = [p \in Sessions |->
                             IF p \in to THEN Push(sendCh[p], B(p).frame)
                             ELSE sendCh[p]]
             /\ knownSnakes' = [p \in Sessions |->
                                  IF p \in to
                                  THEN BroadcastKnown(knownSnakes[p], B(p).known,
                                                      pushed(p))
                                  ELSE knownSnakes[p]]
             /\ enq' = [p \in Sessions |->
                          IF p \in to /\ pushed(p) THEN enq[p] + 1 ELSE enq[p]]
             /\ metaSeen' = [p \in Sessions |->
                               IF p \in to /\ pushed(p)
                               THEN metaSeen[p] \cup FrameMeta(B(p).frame)
                               ELSE metaSeen[p]]
             /\ owed' = [p \in Sessions |->
                           IF p \in to
                           THEN IF pushed(p) THEN {}
                                ELSE owed[p] \cup FrameMeta(B(p).frame)
                           ELSE owed[p]]
             /\ respawned' = [p \in Sessions |->
                                IF p \in to /\ pushed(p)
                                THEN respawned[p] \ FrameIds(B(p).frame)
                                ELSE respawned[p]]
             /\ lastDropped' = [p \in Sessions |->
                                  IF p \in to THEN ~pushed(p) ELSE lastDropped[p]]
             /\ tickPc' = IF \E p \in to : TrySend(sendCh[p]) = "wait"
                          THEN "send" ELSE "wait"
    /\ UNCHANGED <<game, frame, players, aiIDCounter, totalJoins, totalLeaves,
                   peakPlayers, psnake, inputCh, joinCh, leaveCh, respawnCh,
                   statsReqCh, replyCh, replyTo, rdPc, wrPc, reqPc,
                   playerIDCounter, pname, done, sentIn, consumed, msgsSent, wire>>

\* ------------------------------------------------------------------------
\* The world: snakes with their segments, food, physics and collisions.
\*
\* Lengths are in thousandths of a world unit, angles in units of pi/18.
\* The world is followed on the line y = WorldSize/2: every snake and
\* pellet lies on it and every angle is 0 or pi.  The random draws of the
\* program (positions, angles, jitter) are taken among the outcomes that
\* keep the world on the line, and the turn of the configuration
\* (TurnSpeed * 1.8 = pi) keeps it there.
\* ------------------------------------------------------------------------
TwoPi == 2 * Pi

NormAngle(a) == a % TwoPi

\* math.Cos at the angles of the line.
Cos(a) == IF NormAngle(a) = 0 THEN 1 ELSE IF NormAngle(a) = Pi THEN -1 ELSE 0

\* math.Atan2(0, dx)
Atan2(dx) == IF dx >= 0 THEN 0 ELSE Pi

Abs(x) == IF x < 0 THEN -x ELSE x

Min(a, b) == IF a < b THEN a ELSE b

\* On angles in [0, 2 pi) each loop of angleDiff runs at most once.
angleDiff(a, b) ==
    LET d == b - a
    IN  IF d > Pi THEN d - TwoPi ELSE IF d < -Pi THEN d + TwoPi ELSE d

clampF(v, lo, hi) == IF v < lo THEN lo ELSE IF v > hi THEN hi ELSE v

headRadius(s) == HeadRadius + Min(Len(s.Segments) * 30, 6000)

bodyRadius(s) == BodyRadius + Min(Len(s.Segments) * 25, 5000)

\* The outcomes that are followed of randWorldPos in NewGame and in
\* handleJoin and handleRespawn, of the random angle of createSnake and of
\* the extra length of an AI.
SpawnXs == {200000, 500000}
JoinXs == {215000, 500000}
LineAngles == {0, Pi}
Extras == {3}

\* The random generator is followed on the runs where every tick draws
\* the same values: a position, an angle, an extra length and the state an
\* AI changes to (r < 0.5, r < 0.8, else), each state with its shortest
\* timer.
Draws ==
    {[x |-> 200000, angle |-> Pi, extra |-> 3, ai |-> "food"],
     [x |-> 500000, angle |-> 0, extra |-> 3, ai |-> "wander"],
     [x |-> 500000, angle |-> Pi, extra |-> 3, ai |-> "hunt"]}

\* The inputs of a session that are followed.
GameInputs == {[Angle |-> 0, Boost |-> TRUE], [Angle |-> Pi, Boost |-> FALSE]}

\* createSnake.  diedAt and diedIdx are kept for the properties: the frame
\* and the list index of the last death of the list element, 0 when it has
\* not died.
createSnakeAt(name, x, angle, isAI, pid) ==
    [Name |-> name, diedAt |-> 0, diedIdx |-> 0,
     Segments |-> [i \in 1..BaseSnakeLen |-> x - Cos(angle) * 8000 * (i - 1)],
     Angle |-> angle, TargetAngle |-> angle, Speed |-> BaseSpeed,
     isAI |-> isAI, PlayerID |-> pid, Score |-> 0,
     TargetLen |-> BaseSnakeLen, Boost |-> MaxBoost, IsBoosting |-> FALSE,
     alive |-> TRUE, InvTimer |-> 120, RespawnTmr |-> 0,
     AIState |-> "wander", AIStateTimer |-> 0, AITargetAngle |-> angle]

shrinkSnake(s, amt) ==
    [s EXCEPT !.TargetLen = @ + amt, !.Score = @ - amt]

\* A growth that forgets the score.
growLengthOnly(s, amt) == [s EXCEPT !.TargetLen = @ + amt]

\* growSnake: the target length and the score grow by the amount.
growSnake(s, amt) ==
    [s EXCEPT !.TargetLen = @ + amt, !.Score = @ + amt]

\* The AI snakes of NewGame and respawnAI: createSnake and the extra length.
createAI(name, x, angle, pid, extra) ==
    growSnake(createSnakeAt(name, x, angle, TRUE, pid), extra)

newFood(x) == [X |-> x, Radius |-> FoodRadiusVal, Value |-> FoodValueVal]

\* What happened to which snake (by PlayerID) during the last tick: shed a
\* pellet by boosting, had the boost flag set with 12 segments or fewer when
\* updateSnake looked at it, intended a move out of the margin box, was
\* killed by a body collision, received a kill bonus.
NoEvents ==
    [shed |-> {}, denied |-> {}, wall |-> {}, killed |-> {}, bonus |-> {}]

\* The part of the configuration that differs between the worlds followed:
\* BoostDrain, 0.6 or 60 a tick.
DefaultDrain ==
    [BoostDrain |-> BoostDrain, AIRespawnTicks |-> AIRespawnTicks]
FastDrain ==
    [BoostDrain |-> 100 * BoostDrain, AIRespawnTicks |-> AIRespawnTicks]
\* A configuration whose AIs are reborn after RebirthTicks ticks.
QuickRebirth ==
    [BoostDrain |-> BoostDrain, AIRespawnTicks |-> RebirthTicks]

\* NewGame: AICount snakes and FoodCount pellets; eaten counts the pellets
\* eaten and inputs the inputs received so far, rand the state of the random
\* generator, ev the events of the last tick.
NewGame(cfg, xs, angle, extra, fx, rand) ==
    [cfg |-> cfg,
     rand |-> rand,
     ev |-> NoEvents,
     frame |-> 0,
     snakes |-> [i \in 1..AICount |-> createAI(AIName(i), xs[i], angle, -i, extra)],
     foods |-> [i \in 1..FoodCount |-> newFood(fx)],
     totalKills |-> 0,
     aiIDCounter |-> AICount,
     eaten |-> 0,
     inputs |-> 0]

\* killSnake: every step-th segment becomes a pellet (radius 7, value 2:
\* the smallest draws).
spareSnake(g, i) == g

killSnakeCapped(g, i) ==
    LET s == g.snakes[i]
        dropped == [j \in 1..Min(KillFoodCount, Len(s.Segments)) |->
                      [X |-> s.Segments[j], Radius |-> 7000, Value |-> 2000]]
    IN  IF ~s.alive THEN g
        ELSE [g EXCEPT !.snakes[i].alive = FALSE, !.foods = @ \o dropped]

killSnake(g, i) ==
    LET s == g.snakes[i]
        n == Len(s.Segments)
        step == IF n \div KillFoodCount < 1 THEN 1 ELSE n \div KillFoodCount
        at == SelectSeq([k \in 1..n |-> k], LAMBDA k : (k - 1) % step = 0)
        dropped == [j \in 1..Len(at) |->
                      [X |-> s.Segments[at[j]], Radius |-> 7000, Value |-> 2000]]
    IN  IF ~s.alive THEN g
        ELSE [g EXCEPT !.snakes[i].alive = FALSE,
                       !.snakes[i].RespawnTmr =
                            IF s.isAI THEN g.cfg.AIRespawnTicks ELSE @,
                       !.snakes[i].diedAt = g.frame,
                       !.snakes[i].diedIdx = i,
                       !.foods = @ \o dropped]

respawnRenamed(g, i, d) ==
    [g EXCEPT !.snakes[i] =
                [createAI(AIName(g.aiIDCounter + 1), d.x, d.angle,
                          -(g.aiIDCounter + 1), d.extra)
                   EXCEPT !.diedAt = g.snakes[i].diedAt,
                          !.diedIdx = g.snakes[i].diedIdx],
              !.aiIDCounter = @ + 1]

\* respawnAI: *s = *g.createSnake(s.Name, ...), and the extra length.
respawnAI(g, i, d) ==
    [g EXCEPT !.snakes[i] =
                [createAI(g.snakes[i].Name, d.x, d.angle,
                          -(g.aiIDCounter + 1), d.extra)
                   EXCEPT !.diedAt = g.snakes[i].diedAt,
                          !.diedIdx = g.snakes[i].diedIdx],
              !.aiIDCounter = @ + 1]

\* The index of the first element of a set of indexes, 0 when it is empty.
FirstOf(S) == IF S = {} THEN 0 ELSE SetMin(S)

\* updateAI, the food state: the closest pellet nearer than 400, the first
\* one among equals.
closestFood(g, head) ==
    LET D(k) == Abs(head - g.foods[k].X)
        near == {k \in 1..Len(g.foods) : D(k) < 400000}
    IN  FirstOf({k \in near : \A j \in near : D(k) <= D(j)})

\* updateAI, the hunt state: the closest snake nearer than 500 that is not
\* more than 1.5 times as long.
huntTarget(g, i) ==
    LET s == g.snakes[i]
        D(o) == Abs(s.Segments[1] - g.snakes[o].Segments[1])
        near == {o \in 1..Len(g.snakes) :
                    /\ o # i /\ g.snakes[o].alive
                    /\ ~(Len(g.snakes[o].Segments) > (Len(s.Segments) * 3) \div 2)
                    /\ D(o) < 500000}
    IN  FirstOf({o \in near : \A j \in near : D(o) <= D(j)})

\* updateAI, collision avoidance: the first snake, and its first segment of
\* even index below 40, nearer to the head than bodyRadius + headRadius + 30.
avoidReach(g, i, o) == bodyRadius(g.snakes[o]) + headRadius(g.snakes[i]) + 30000

avoidSegs(g, i, o) ==
    {k \in 1..Min(Len(g.snakes[o].Segments), 40) :
        /\ (k - 1) % 2 = 0
        /\ Abs(g.snakes[i].Segments[1] - g.snakes[o].Segments[k])
              < avoidReach(g, i, o)}

avoidSnake(g, i) ==
    FirstOf({o \in 1..Len(g.snakes) :
                o # i /\ g.snakes[o].alive /\ avoidSegs(g, i, o) # {}})

nearWallNever(head) == FALSE

\* updateAI: the head is within 300 of a wall (y is WorldSize / 2).
nearWall(head) ==
    \/ head < 300000 \/ head > WorldSize - 300000
    \/ WorldSize \div 2 < 300000 \/ WorldSize \div 2 > WorldSize - 300000

updateAI(g, i, d) ==
    LET s0 == g.snakes[i]
        head == s0.Segments[1]
        mid == WorldSize \div 2
        s1 == [s0 EXCEPT !.AIStateTimer = @ - 1]
        s2 == IF nearWall(head)
              THEN [s1 EXCEPT !.AIState = "flee", !.AIStateTimer = 30]
              ELSE s1
        s3 == IF s2.AIStateTimer > 0 THEN s2
              ELSE IF d.ai = "food"
              THEN [s2 EXCEPT !.AIState = "food", !.AIStateTimer = 60]
              ELSE IF d.ai = "wander"
              THEN [s2 EXCEPT !.AIState = "wander", !.AIStateTimer = 60,
                              !.AITargetAngle = d.angle]
              ELSE [s2 EXCEPT !.AIState = "hunt", !.AIStateTimer = 90]
        f == closestFood(g, head)
        t == huntTarget(g, i)
        s4 == IF s3.AIState = "flee"
              THEN [s3 EXCEPT !.TargetAngle = Atan2(mid - head),
                              !.IsBoosting = TRUE]
              ELSE IF s3.AIState = "food"
              THEN IF f # 0
                   THEN [s3 EXCEPT !.TargetAngle = Atan2(g.foods[f].X - head),
                                   !.IsBoosting = FALSE]
                   ELSE [s3 EXCEPT !.AIState = "wander", !.AIStateTimer = 60,
                                   !.IsBoosting = FALSE]
              ELSE IF s3.AIState = "hunt"
              THEN IF t # 0
                   THEN LET th == g.snakes[t].Segments[1]
                            px == th + Cos(g.snakes[t].Angle) * 100000
                        IN  [s3 EXCEPT !.TargetAngle = Atan2(px - head),
                                       !.IsBoosting = Abs(head - th) < 200000
                                                      /\ s3.Boost > 30000]
                   ELSE [s3 EXCEPT !.AIState = "wander"]
              ELSE [s3 EXCEPT !.TargetAngle = s3.AITargetAngle,
                              !.IsBoosting = FALSE]
        o == avoidSnake(g, i)
        s5 == IF o = 0 THEN s4
              ELSE LET seg == g.snakes[o].Segments[SetMin(avoidSegs(g, i, o))]
                       dd == Abs(head - seg)
                   IN  [s4 EXCEPT !.TargetAngle = Atan2(head - seg),
                                  !.IsBoosting = dd * 10 < avoidReach(g, i, o) * 6
                                                 /\ s4.Boost > 20000]
    IN  IF ~s0.alive \/ ~s0.isAI THEN g ELSE [g EXCEPT !.snakes[i] = s5]

\* The segments after the new head has been prepended.
withHead(s, newX) ==
    LET segs == <<newX>> \o s.Segments
    IN  IF Len(segs) > s.TargetLen THEN SubSeq(segs, 1, s.TargetLen) ELSE segs

canBoostAnyLen(s) == s.IsBoosting /\ s.Boost > 0

\* updateSnake: the test that lets a snake boost in this tick.
canBoost(s) == s.IsBoosting /\ s.Boost > 0 /\ Len(s.Segments) > 12

updateSnake(g, i) ==
    LET s0 == g.snakes[i]
        s1 == [s0 EXCEPT !.InvTimer = IF @ > 0 THEN @ - 1 ELSE @]
        diff == angleDiff(s1.Angle, s1.TargetAngle)
        s2 == [s1 EXCEPT !.Angle =
                 NormAngle(@ + (clampF(diff, -TurnSpeed, TurnSpeed) * 18) \div 10)]
        boost == canBoost(s2)
        shed == boost /\ g.frame % 8 = 0 /\ s2.TargetLen > BaseSnakeLen
        s3 == IF boost
              THEN [s2 EXCEPT !.Speed = BoostSpeed,
                              !.Boost = @ - g.cfg.BoostDrain,
                              !.TargetLen = IF shed THEN @ - 1 ELSE @]
              ELSE [s2 EXCEPT !.Speed = BaseSpeed,
                              !.IsBoosting = FALSE,
                              !.Boost = IF @ < MaxBoost THEN @ + BoostRegen ELSE @]
        tail == s3.Segments[Len(s3.Segments)]
        head == s3.Segments[1]
        newX == head + Cos(s3.Angle) * s3.Speed
        mid == WorldSize \div 2
        outside == \/ newX < BoundaryMargin \/ newX > WorldSize - BoundaryMargin
                   \/ mid < BoundaryMargin \/ mid > WorldSize - BoundaryMargin
        id == {s0.PlayerID}
        g1 == [g EXCEPT !.snakes[i] = s3,
                        !.foods = IF shed THEN Append(@, newFood(tail)) ELSE @,
                        !.ev.shed = IF shed THEN @ \cup id ELSE @,
                        !.ev.denied = IF s2.IsBoosting /\ Len(s2.Segments) <= 12
                                      THEN @ \cup id ELSE @,
                        !.ev.wall = IF outside THEN @ \cup id ELSE @]
    IN  IF ~s0.alive THEN g
        ELSE IF outside
        THEN IF ~s3.isAI THEN killSnake(g1, i)
             ELSE [g1 EXCEPT !.snakes[i].TargetAngle = Atan2(mid - head)]
        ELSE [g1 EXCEPT !.snakes[i].Segments = withHead(s3, newX)]

\* int(math.Round(v)) of a value in thousandths.
\* A rounding that cuts the fraction.
RoundDown(v) == v \div 1000

\* math.Round of a value in thousandths.
Round(v) == (v + 500) \div 1000

RECURSIVE eatFrom(_, _, _, _)
\* checkFoodCollision, the loop from index k down: the pellets left, the
\* growth and the number of pellets eaten.
eatFrom(foods, k, head, hr) ==
    IF k = 0 THEN [foods |-> foods, amt |-> 0, n |-> 0]
    ELSE IF Abs(head - foods[k].X) < hr + foods[k].Radius
    THEN LET last == Len(foods)
             rest == SubSeq([foods EXCEPT ![k] = foods[last]], 1, last - 1)
             r == eatFrom(rest, k - 1, head, hr)
         IN  [foods |-> r.foods, amt |-> r.amt + Round(foods[k].Value),
              n |-> r.n + 1]
    ELSE eatFrom(foods, k - 1, head, hr)

checkFoodCollision(g, i) ==
    LET s == g.snakes[i]
        r == eatFrom(g.foods, Len(g.foods), s.Segments[1], headRadius(s))
    IN  IF ~s.alive THEN g
        ELSE [g EXCEPT !.foods = r.foods,
                       !.snakes[i] = growSnake(@, r.amt),
                       !.eaten = @ + r.n]

\* checkSnakeCollisions: the snakes whose body (from the sixth segment on)
\* the head of snake i touches.
hitBy(g, i) ==
    LET s == g.snakes[i]
        head == s.Segments[1]
        hr == headRadius(s)
    IN  {o \in 1..Len(g.snakes) :
            /\ o # i /\ g.snakes[o].alive
            /\ ~(Abs(head - g.snakes[o].Segments[1])
                   > Len(g.snakes[o].Segments) * 8000 + hr + 50000)
            /\ \E k \in 6..Len(g.snakes[o].Segments) :
                  Abs(head - g.snakes[o].Segments[k])
                     < hr + bodyRadius(g.snakes[o]) - 4000}

collidesAlways(s) == ~s.alive

\* checkSnakeCollisions: the heads that are not looked at.
skipsCollision(s) == ~s.alive \/ s.InvTimer > 0

RECURSIVE collideFrom(_, _)
collideFrom(g, i) ==
    IF i > Len(g.snakes) THEN g
    ELSE LET s == g.snakes[i]
             o == FirstOf(hitBy(g, i))
         IN  IF skipsCollision(s) \/ o = 0
             THEN collideFrom(g, i + 1)
             ELSE collideFrom(
                    [killSnake(g, i) EXCEPT
                        !.totalKills = @ + 1,
                        !.snakes[o] = growSnake(@, (Len(s.Segments) * 3) \div 10),
                        !.ev.killed = @ \cup {s.PlayerID},
                        !.ev.bonus = @ \cup {g.snakes[o].PlayerID}],
                    i + 1)

collideAll(g) ==
    [g EXCEPT !.snakes =
        [i \in 1..Len(g.snakes) |->
            IF ~skipsCollision(g.snakes[i]) /\ hitBy(g, i) # {}
            THEN [g.snakes[i] EXCEPT !.alive = FALSE]
            ELSE g.snakes[i]]]

checkSnakeCollisions(g) == collideFrom(g, 1)

stepDeadAsAI(g, i, d) ==
    LET waited == [g EXCEPT !.snakes[i].RespawnTmr = @ - 1]
    IN  IF waited.snakes[i].RespawnTmr <= 0 THEN respawnAI(waited, i, d)
        ELSE waited

\* tick, the loop over the snakes: what is done with a dead snake.
stepDead(g, i, d) ==
    LET waited == [g EXCEPT !.snakes[i].RespawnTmr = @ - 1]
    IN  IF ~g.snakes[i].isAI THEN g
        ELSE IF waited.snakes[i].RespawnTmr <= 0 THEN respawnAI(waited, i, d)
        ELSE waited

RECURSIVE stepFrom(_, _, _)
\* tick, the loop over the snakes from index i on.
stepFrom(g, i, d) ==
    IF i > Len(g.snakes) THEN g
    ELSE LET s == g.snakes[i]
             g1 == IF ~s.alive
                   THEN stepDead(g, i, d)
                   ELSE checkFoodCollision(
                          updateSnake(IF s.isAI THEN updateAI(g, i, d) ELSE g, i),
                          i)
         IN  stepFrom(g1, i + 1, d)

replenishNothing(foods, x) == foods

\* tick: for len(g.foods) < FoodCount, a new pellet is appended.
replenish(foods, x) ==
    IF Len(foods) < FoodCount
    THEN foods \o [k \in 1..(FoodCount - Len(foods)) |-> newFood(x)]
    ELSE foods

\* tick, as far as the world goes: the frame, the snakes, the collisions
\* and the pellets.
\* tick up to the call of checkSnakeCollisions: the frame counter and the
\* loop over the snakes.
beforeCollisions(g, d) ==
    stepFrom([g EXCEPT !.frame = @ + 1, !.ev = NoEvents], 1, d)

tick(g, d) ==
    LET g1 == checkSnakeCollisions(beforeCollisions(g, d))
    IN  [g1 EXCEPT !.foods = replenish(@, d.x)]

\* The human snake of a session: p.snake, 0 when there is none.
humanOf(g, pid) ==
    FirstOf({i \in 1..Len(g.snakes) :
                ~g.snakes[i].isAI /\ g.snakes[i].PlayerID = pid})

\* tick: a timer fires.
GameTick(maxFrame) ==
    /\ game.frame < maxFrame
    /\ game' = tick(game, game.rand)
    /\ UNCHANGED sessionVars

\* handleJoin, as far as the world goes: the first alive AI leaves the
\* list and the snake of the session, drawn at x with angle a, is appended.
handleJoin(g, pid, x, a) ==
    [g EXCEPT !.snakes = Append(RemoveFirstAliveAI(@),
                                createSnakeAt(PlayerName, x, a, FALSE, pid))]

GameJoin(pid) ==
    /\ humanOf(game, pid) = 0
    /\ \E x \in JoinXs, a \in LineAngles :
         game' = handleJoin(game, pid, x, a)
    /\ UNCHANGED sessionVars

\* drainMessages, case msg := <-g.inputCh, as far as the world goes: the
\* input is applied to the alive snake of a registered session and is
\* dropped otherwise.
applyInput(g, pid, in) ==
    IF humanOf(g, pid) # 0 /\ g.snakes[humanOf(g, pid)].alive
    THEN [g EXCEPT !.snakes[humanOf(g, pid)] =
                      [@ EXCEPT !.TargetAngle = in.Angle,
                                !.IsBoosting = in.Boost]]
    ELSE g

GameInput(pid, maxInputs) ==
    /\ humanOf(game, pid) # 0
    /\ game.snakes[humanOf(game, pid)].alive
    /\ game.inputs < maxInputs
    /\ \E in \in GameInputs :
         game' = [applyInput(game, pid, in) EXCEPT !.inputs = @ + 1]
    /\ UNCHANGED sessionVars

\* handleRespawn, as far as the world goes: the request of a session
\* without a dead snake is ignored; otherwise the corpse leaves the list
\* and a new snake, drawn at x with angle a, is appended.
handleRespawn(g, pid, x, a) ==
    IF humanOf(g, pid) # 0 /\ ~g.snakes[humanOf(g, pid)].alive
    THEN [g EXCEPT !.snakes =
                      Append(RemoveAt(@, humanOf(g, pid)),
                             createSnakeAt(PlayerName, x, a, FALSE, pid))]
    ELSE g

GameRespawn(pid) ==
    /\ humanOf(game, pid) # 0
    /\ ~game.snakes[humanOf(game, pid)].alive
    /\ \E x \in JoinXs, a \in LineAngles :
         game' = handleRespawn(game, pid, x, a)
    /\ UNCHANGED sessionVars

FirstGame ==
    NewGame(DefaultDrain, [i \in 1..AICount |-> 500000], 0, 3, 500000,
            [x |-> 500000, angle |-> 0, extra |-> 3, ai |-> "wander"])

\* The session layer does not look at the geometry: its world is one
\* outcome of the construction.
Init == InitSessions /\ game = FirstGame

\* ------------------------------------------------------------------------
\* Specifications of the session layer.  The other tasks move between
\* ticks: a message that arrives during a drain is received either by that
\* drain, as if it had arrived before it, or by the next one.
\* ------------------------------------------------------------------------
\* The steps of a tick once the ticker has fired.
TickBody ==
    \/ DrainInput
    \/ DrainJoin
    \/ DrainLeave
    \/ DrainRespawn
    \/ DrainDefault
    \/ TickRest

Next ==
    \/ TickStart(MaxFrame)
    \/ TickBody
    \/ Connect(MaxSessions)
    \/ \E p \in Sessions : ReaderJoin(p)
    \/ \E p \in Sessions : ReaderRespawn(p)
    \/ \E p \in Sessions : ReaderInput(p)
    \/ \E p \in Sessions : ReaderExit(p)
    \/ \E p \in Sessions : SendLeave(p)
    \/ \E p \in Sessions : WriterWrite(p)
    \/ \E p \in Sessions : WriterExit(p)

Spec == Init /\ [][Next]_vars

\* Backpressure: a session whose writer lags behind, and whose client,
\* once it has a snake, joins again or asks to respawn only while its queue
\* is full; no inputs, no disconnect.
QueueBody ==
    \/ DrainJoin
    \/ DrainRespawn
    \/ DrainDefault
    \/ TickRest

Backlogged(p) == Len(sendCh[p]) = SendChCap

LaggingWrite(p) == Backlogged(p) /\ WriterWrite(p)

JoinUnderLoad(p) == (psnake[p] = 0 \/ Backlogged(p)) /\ ReaderJoin(p)

RespawnUnderLoad(p) == Backlogged(p) /\ ReaderRespawn(p)

NextQueue ==
    \/ TickStart(QueueMaxFrame)
    \/ QueueBody
    \/ Connect(MaxSessions)
    \/ \E p \in Sessions :
         \/ JoinUnderLoad(p)
         \/ RespawnUnderLoad(p)
         \/ LaggingWrite(p)

SpecQueue == Init /\ [][NextQueue]_vars

\* Stats requests from outside while sessions come and go.
NextStats ==
    \/ TickStart(StatsMaxFrame)
    \/ TickBody
    \/ DrainStats
    \/ SendReply
    \/ Connect(MaxSessions)
    \/ \E p \in Sessions :
         \/ ReaderJoin(p)
         \/ ReaderRespawn(p)
         \/ ReaderInput(p)
         \/ ReaderExit(p)
         \/ SendLeave(p)
         \/ WriterWrite(p)
         \/ WriterExit(p)
    \/ \E r \in Requesters :
         \/ StatsRequest(r)
         \/ StatsReceive(r)

SpecStats == Init /\ [][NextStats]_vars

\* The world alone: ticks, and the joins, inputs and respawns of the drains.
InitWorld ==
    /\ InitSessions
    /\ \E xs \in [1..AICount -> SpawnXs], a \in LineAngles, e \in Extras,
          fx \in SpawnXs, rand \in Draws :
         game = NewGame(DefaultDrain, xs, a, e, fx, rand)

NextWorld ==
    \/ GameTick(WorldMaxFrame)
    \/ \E pid \in PlayerIDs :
         \/ GameJoin(pid)
         \/ GameInput(pid, MaxGameInputs)
         \/ GameRespawn(pid)

SpecWorld == InitWorld /\ [][NextWorld]_vars

\* The long run: one AI spawned near the left wall, a client that joins
\* before the first tick and turns round only when its head is within one
\* step of LeftTurn (heading to the wall) or of RightTurn (heading away),
\* and ticks until the invulnerability of the first snakes has run out.
\* Both drains of the boost meter are followed.
Human(pid) == game.snakes[humanOf(game, pid)]

InitHover ==
    /\ InitSessions
    /\ \E cfg \in {DefaultDrain, FastDrain}, a \in LineAngles, rand \in Draws :
         game = NewGame(cfg, <<200000, 500000, 500000>>, a, 3, 500000, rand)

HoverJoin(pid) == game.frame = 0 /\ GameJoin(pid)

HoverInput(pid) ==
    /\ humanOf(game, pid) # 0
    /\ LET x == Human(pid).Segments[1]
       IN  \/ Human(pid).TargetAngle = Pi /\ x >= LeftTurn /\ x < LeftTurn + BaseSpeed
           \/ Human(pid).TargetAngle = 0 /\ x >= RightTurn /\ x < RightTurn + BaseSpeed
    /\ GameInput(pid, HoverInputs)
    /\ game'.snakes[humanOf(game, pid)].TargetAngle # Human(pid).TargetAngle

NextHover ==
    \/ GameTick(HoverMaxFrame)
    \/ \E pid \in PlayerIDs :
         \/ HoverJoin(pid)
         \/ HoverInput(pid)

SpecHover == InitHover /\ [][NextHover]_vars

\* The rebirth of an AI: the world of the hovering human with AIs that are
\* reborn after RebirthTicks ticks, and a second client that joins while
\* an AI is dead.
Latecomer == 2

InitRebirth ==
    /\ InitSessions
    /\ \E a \in LineAngles, rand \in Draws :
         game = NewGame(QuickRebirth, <<200000, 500000, 500000>>, a, 3,
                        500000, rand)

LateJoin ==
    /\ \E i \in 1..Len(game.snakes) :
         game.snakes[i].isAI /\ ~game.snakes[i].alive
    /\ GameJoin(Latecomer)

NextRebirth ==
    \/ GameTick(RebirthMaxFrame)
    \/ \E pid \in PlayerIDs :
         \/ HoverJoin(pid)
         \/ HoverInput(pid)
    \/ LateJoin

SpecRebirth == InitRebirth /\ [][NextRebirth]_vars

\* The death of a snake of any length: the first snake of the world has
\* grown to n segments, laid at the distance of a tick at base speed, and
\* killSnake is called on it.
grownTo(s, n) ==
    [s EXCEPT !.Segments = [i \in 1..n |->
                              s.Segments[1] - Cos(s.Angle) * BaseSpeed * (i - 1)],
              !.TargetLen = n,
              !.Score = n - BaseSnakeLen,
              !.InvTimer = 0]

InitKill ==
    /\ InitSessions
    /\ \E n \in BaseSnakeLen..CorpseMaxLen, x \in SpawnXs, a \in LineAngles,
          rand \in Draws :
         game = [NewGame(DefaultDrain, <<x, 500000, 500000>>, a, 3, 500000, rand)
                   EXCEPT !.snakes[1] = grownTo(@, n)]

KillFirst ==
    /\ game.snakes[1].alive
    /\ game' = killSnake(game, 1)
    /\ UNCHANGED sessionVars

NextKill == KillFirst

SpecKill == InitKill /\ [][NextKill]_vars

\* The viewport of serializeStateFor, with both coordinates: a world of the
\* default size, the snake of the session (none, alive or dead) and two
\* other snakes at offsets from the centre of the view that lie on both
\* sides of ViewDist + 1000.
DefaultWorldSize == 10000000

ViewOffsets == {-3500000, -3499000, 0, 3000000, 3500000}
ViewOffsetsY == {-3499000, 0, 3500000}
OwnSpots == {[X |-> 5000000, Y |-> 5000000], [X |-> 4000000, Y |-> 6000000]}

\* A snake as the viewport reads it: its id, whether it is alive, and its
\* segments (createSnake at angle 0).
viewSnake(pid, alive, at) ==
    [PlayerID |-> pid, alive |-> alive,
     Segments |-> [i \in 1..BaseSnakeLen |->
                     [X |-> at.X - 8000 * (i - 1), Y |-> at.Y]]]

inViewNarrow(dx, dy) == dx < ViewDist /\ dy < ViewDist

\* serializeStateFor: dx < ViewDist+1000 && dy < ViewDist+1000
inView(dx, dy) == dx < ViewDist + 1000000 /\ dy < ViewDist + 1000000

\* serializeStateFor: the centre of the view of a session whose snake is
\* snakes[own] (own = 0: p.snake is nil).
viewCentre(g, own) ==
    IF own # 0 /\ Len(g.snakes[own].Segments) > 0
    THEN g.snakes[own].Segments[1]
    ELSE [X |-> g.ws \div 2, Y |-> g.ws \div 2]

\* serializeStateFor: the visible snakes, as indexes of the snake list.
visibleFor(g, own) ==
    LET c == viewCentre(g, own)
        seen(i) == /\ i # own
                   /\ g.snakes[i].alive
                   /\ Len(g.snakes[i].Segments) # 0
                   /\ inView(Abs(g.snakes[i].Segments[1].X - c.X),
                             Abs(g.snakes[i].Segments[1].Y - c.Y))
    IN  (IF own # 0 THEN <<own>> ELSE << >>)
           \o SelectSeq([i \in 1..Len(g.snakes) |-> i], seen)

InitView ==
    /\ InitSessions
    /\ \E spot \in OwnSpots, has \in BOOLEAN, ownAlive \in BOOLEAN,
          dx1 \in ViewOffsets, dy1 \in ViewOffsetsY, a1 \in BOOLEAN,
          dx2 \in ViewOffsets, dy2 \in ViewOffsetsY, a2 \in BOOLEAN :
         LET c == IF has THEN spot
                  ELSE [X |-> DefaultWorldSize \div 2, Y |-> DefaultWorldSize \div 2]
             others == <<viewSnake(-1, a1, [X |-> c.X + dx1, Y |-> c.Y + dy1]),
                         viewSnake(-2, a2, [X |-> c.X + dx2, Y |-> c.Y + dy2])>>
         IN  /\ has \/ (spot.X = DefaultWorldSize \div 2 /\ ownAlive)
             /\ game = [ws |-> DefaultWorldSize,
                        snakes |-> IF has
                                   THEN <<viewSnake(1, ownAlive, spot)>> \o others
                                   ELSE others,
                        own |-> IF has THEN 1 ELSE 0,
                        viewed |-> FALSE,
                        visible |-> << >>]

ViewFrom ==
    /\ ~game.viewed
    /\ game' = [game EXCEPT !.visible = visibleFor(game, game.own),
                            !.viewed = TRUE]
    /\ UNCHANGED sessionVars

NextView == ViewFrom

SpecView == InitView /\ [][NextView]_vars

\* A crowd: CrowdSize clients join before the first tick and send nothing;
\* their snakes go straight on.
CrowdIDs == 1..CrowdSize

InitCrowd ==
    /\ InitSessions
    /\ \E a \in LineAngles, rand \in Draws :
         game = NewGame(DefaultDrain, <<200000, 500000, 500000>>, a, 3,
                        500000, rand)

CrowdJoin(pid) == game.frame = 0 /\ GameJoin(pid)

NextCrowd ==
    \/ GameTick(HoverMaxFrame)
    \/ \E pid \in CrowdIDs : CrowdJoin(pid)

SpecCrowd == InitCrowd /\ [][NextCrowd]_vars

\* ------------------------------------------------------------------------
\* Properties of the session layer
\* ------------------------------------------------------------------------
OwnSnake(p) == snakes[SnakeIdx(snakes, psnake[p])]

Pending(ch, p) == \E i \in 1..Len(ch) : ch[i] = p

\* C3: a session that has sent a join and then disconnects is, once its
\* leave has been processed, neither in the session table nor in the snake
\* list.  Stated on the quiescent states: the reader is gone and nothing of
\* the session is pending on joinCh or leaveCh, so no later step can remove
\* what is left of it.
C3_DisconnectedSessionIsRemoved ==
    \A p \in Sessions :
        (rdPc[p] = "gone" /\ tickPc = "wait"
            /\ ~Pending(joinCh, p) /\ ~Pending(leaveCh, p))
        => /\ p \notin players
           /\ \A i \in 1..Len(snakes) : snakes[i].id # p

\* C4: no field of a registered session is written by a task other than
\* the tick task.  The tick task never writes a session's name, so the name
\* of a registered session must not change.
C4_RegisteredNameNotWritten ==
    [][\A p \in players : pname'[p] = pname[p]]_vars

\* C7 as stated: after a drain, the alive snake of a registered session
\* carries the target angle and the boost flag of the last input the
\* session has submitted.  Stated for the case most favourable to the
\* claim: that last input has been applied to this very snake.
C7_SnakeCarriesLastSubmittedInput ==
    tickPc = "world" =>
        \A p \in players :
            (psnake[p] # 0 /\ OwnSnake(p).alive /\ sentIn[p] # << >>
                /\ OwnSnake(p).inSeq = Len(sentIn[p]))
            => /\ OwnSnake(p).tgt = sentIn[p][Len(sentIn[p])].Angle
               /\ OwnSnake(p).boosting = sentIn[p][Len(sentIn[p])].Boost

\* The inputs of session p still on the input channel, oldest first.
PendingInputs(p) ==
    LET IsOf(m) == m.PlayerID = p IN SelectSeq(inputCh, IsOf)

\* C7 as amended: the inputs of a session are received in the order sent
\* (the k-th received is the k-th sent), and at the end of a drain an alive
\* snake of a registered session to which an input was applied during that
\* drain carries the target angle and boost flag of the last input of the
\* session received so far; a snake no input was applied to keeps the
\* target angle it was created with.
C7_InputsAppliedInOrder ==
    /\ \A p \in Sessions :
         /\ consumed[p] + Len(PendingInputs(p)) = Len(sentIn[p])
         /\ \A k \in 1..Len(PendingInputs(p)) :
               /\ PendingInputs(p)[k].n = consumed[p] + k
               /\ PendingInputs(p)[k].Angle = sentIn[p][consumed[p] + k].Angle
               /\ PendingInputs(p)[k].Boost = sentIn[p][consumed[p] + k].Boost
    /\ tickPc = "world" =>
         \A p \in players :
            (psnake[p] # 0 /\ OwnSnake(p).alive) =>
                IF OwnSnake(p).inFrame = frame
                THEN /\ OwnSnake(p).inSeq = consumed[p]
                     /\ OwnSnake(p).tgt = sentIn[p][consumed[p]].Angle
                     /\ OwnSnake(p).boosting = sentIn[p][consumed[p]].Boost
                ELSE OwnSnake(p).inSeq = 0 => OwnSnake(p).tgt \in SpawnAngles

\* Witness of C7: a drain has applied the second of two different inputs.
C7_Witness ==
    /\ tickPc = "world"
    /\ \E p \in players :
         /\ psnake[p] # 0 /\ OwnSnake(p).alive
         /\ OwnSnake(p).inFrame = frame
         /\ OwnSnake(p).inSeq = 2
         /\ sentIn[p][1] # sentIn[p][2]

\* C8: the frames of a session reach its wire in the order the tick task
\* queued them (frame n is the n-th queued): none is reordered or written
\* twice, and a frame written was queued before.
C8_FramesWrittenInOrder ==
    \A p \in Sessions :
        /\ \A i \in 1..Len(wire[p]) : wire[p][i] = i
        /\ Len(wire[p]) + Len(sendCh[p]) = enq[p]
        /\ \A j \in 1..Len(sendCh[p]) : sendCh[p][j].n = Len(wire[p]) + j

\* Witness of C8: two frames written while a third waits in the queue.
C8_Witness ==
    \E p \in Sessions : Len(wire[p]) >= 2 /\ sendCh[p] # << >>

\* ------------------------------------------------------------------------
\* Properties of the outbound queue
\* ------------------------------------------------------------------------
\* C1: every snake id a queued frame carries without metadata was carried
\* with metadata by an earlier frame queued to the same session.
C1_NoBareFirstSighting ==
    \A p \in Sessions :
        \A j \in 1..Len(sendCh[p]) : sendCh[p][j].bare = {}

\* C2: after broadcast has dropped frames of a session, the next frame
\* queued to the session carries the metadata of every snake that had it
\* in a dropped frame and is visible in the queued one.
C2_DroppedMetadataSentAgain ==
    \A p \in Sessions :
        \A j \in 1..Len(sendCh[p]) : sendCh[p][j].miss = {}

\* C5: a session's outbound queue never holds more than 8 frames, and the
\* tick task never waits in a send on it: on a full queue the frame is
\* dropped and the tick goes on.
C5_QueueBoundedTickNotBlocked ==
    /\ \A p \in Sessions : Len(sendCh[p]) <= SendChCap
    /\ tickPc # "send"

\* Witness of C5: a frame has been dropped on a full queue and the tick
\* has completed.
C5_Witness ==
    \E p \in Sessions :
        Len(sendCh[p]) = SendChCap /\ lastDropped[p] /\ tickPc = "wait"

C9_SegmentsWithinTargetLen ==
    \A i \in 1..Len(game.snakes) :
        game.snakes[i].alive =>
            /\ 1 <= Len(game.snakes[i].Segments)
            /\ Len(game.snakes[i].Segments) <= game.snakes[i].TargetLen

\* C10: at the end of every tick there are at least FoodCount pellets.
C10_FoodAtLeastFoodCount ==
    Len(game.foods) >= FoodCount

\* Witness of C10: pellets have been eaten and the tick has ended with
\* exactly FoodCount pellets.
C10_Witness ==
    /\ game.frame >= 1
    /\ game.eaten >= 1
    /\ Len(game.foods) = FoodCount

\* ------------------------------------------------------------------------
\* Properties of the physics, over the long run
\* ------------------------------------------------------------------------
\* A step that is a tick: only tick advances the frame.
TickStep == game'.frame = game.frame + 1

\* C11: a snake that is alive before and after a step has a score at least
\* as high after it: eating, the kill bonus and the shedding of length by
\* boosting never lower the score.
C11_ScoreNeverDecreases ==
    [][\A i \in 1..Len(game.snakes), j \in 1..Len(game'.snakes) :
          (/\ game.snakes[i].PlayerID = game'.snakes[j].PlayerID
           /\ game.snakes[i].alive /\ game'.snakes[j].alive)
          => game'.snakes[j].Score >= game.snakes[i].Score]_vars

\* Witness of C11: after pellets have been eaten, a tick in which one alive
\* snake has received a kill bonus and another has shed a pellet.
C11_Witness ==
    /\ game.eaten >= 1
    /\ \E i, j \in 1..Len(game.snakes) :
         /\ game.snakes[i].alive /\ game.snakes[i].PlayerID \in game.ev.bonus
         /\ game.snakes[j].alive /\ game.snakes[j].PlayerID \in game.ev.shed

\* C12: a snake killed by a body collision in a tick had no invulnerability
\* left when the collisions of that tick were resolved (the timer is not
\* touched between the resolution and the end of the tick).
C12_ShieldedSnakeNotKilled ==
    [][TickStep =>
         \A i \in 1..Len(game'.snakes) :
            game'.snakes[i].PlayerID \in game'.ev.killed
            => game'.snakes[i].InvTimer = 0]_vars

\* Witness of C12: after a tick, the head of an alive snake with
\* invulnerability left touches the body of another snake.
C12_Witness ==
    /\ game.frame >= 1
    /\ \E i \in 1..Len(game.snakes) :
         /\ game.snakes[i].alive
         /\ game.snakes[i].InvTimer > 0
         /\ hitBy(game, i) # {}

\* C13: the boost meter of every snake is between 0 and MaxBoost.
C13_BoostWithinBounds ==
    \A i \in 1..Len(game.snakes) :
        /\ game.snakes[i].Boost >= 0
        /\ game.snakes[i].Boost <= MaxBoost

\* What the boundary does to an AI whose intended move leaves the margin
\* box: it keeps its segments and its target heading points to the centre.
RedirectedAI(s, t) ==
    /\ t.Segments = s.Segments
    /\ t.TargetAngle = Atan2(WorldSize \div 2 - s.Segments[1])

\* C14 as stated: after a tick, a human whose intended move left the margin
\* box is dead, and an AI whose intended move left it is alive, with its
\* segments unchanged and its target heading towards the centre.
C14_BoundaryKillsHumanSparesAI ==
    [][TickStep =>
         \A i \in 1..Len(game'.snakes) :
            game'.snakes[i].PlayerID \in game'.ev.wall
            => IF game'.snakes[i].isAI
               THEN /\ game'.snakes[i].alive
                    /\ RedirectedAI(game.snakes[i], game'.snakes[i])
               ELSE ~game'.snakes[i].alive]_vars

\* C14 as amended: after a tick, a human whose intended move left the
\* margin box is dead; an AI whose intended move left it has its segments
\* unchanged and its target heading towards the centre, and is alive unless
\* a body collision has killed it in the same tick.
C14_BoundaryKillsHumanRedirectsAI ==
    [][TickStep =>
         \A i \in 1..Len(game'.snakes) :
            game'.snakes[i].PlayerID \in game'.ev.wall
            => IF game'.snakes[i].isAI
               THEN /\ \/ game'.snakes[i].alive
                       \/ game'.snakes[i].PlayerID \in game'.ev.killed
                    /\ RedirectedAI(game.snakes[i], game'.snakes[i])
               ELSE ~game'.snakes[i].alive]_vars

\* Witness of C14: a tick in which the intended move of a human and that of
\* an AI left the margin box: the human is dead, the AI alive.
C14_Witness ==
    \E i, j \in 1..Len(game.snakes) :
        /\ ~game.snakes[i].isAI /\ ~game.snakes[i].alive
        /\ game.snakes[i].PlayerID \in game.ev.wall
        /\ game.snakes[j].isAI /\ game.snakes[j].alive
        /\ game.snakes[j].PlayerID \in game.ev.wall

\* C15: a tick leaves an alive snake of 12 segments or fewer whose boost
\* flag is set (before the tick, or when updateSnake looks at it) at
\* BaseSpeed, with TargetLen not lowered, no pellet shed, the boost meter
\* not drained and the boost flag cleared.
C15_ShortSnakeDoesNotBoost ==
    [][TickStep =>
         \A i \in 1..Len(game.snakes) :
            (/\ game.snakes[i].alive
             /\ Len(game.snakes[i].Segments) <= 12
             /\ \/ game.snakes[i].IsBoosting
                \/ game.snakes[i].PlayerID \in game'.ev.denied)
            => /\ game'.snakes[i].Speed = BaseSpeed
               /\ game'.snakes[i].TargetLen >= game.snakes[i].TargetLen
               /\ game.snakes[i].PlayerID \notin game'.ev.shed
               /\ game'.snakes[i].Boost >= game.snakes[i].Boost
               /\ ~game'.snakes[i].IsBoosting]_vars

\* Witness of C15: a tick has found the boost flag of a human of 12
\* segments or fewer set, by an input of its client.
C15_Witness ==
    \E i \in 1..Len(game.snakes) :
        /\ ~game.snakes[i].isAI /\ game.snakes[i].alive
        /\ game.snakes[i].PlayerID \in game.ev.denied
        /\ game.inputs >= 1

\* C20: a tick leaves a dead human where it is in the snake list, dead and
\* with every field, its segments among them, unchanged.
C20_DeadHumanKept ==
    [][TickStep =>
         \A i \in 1..Len(game.snakes) :
            (~game.snakes[i].alive /\ ~game.snakes[i].isAI)
            => /\ i <= Len(game'.snakes)
               /\ game'.snakes[i] = game.snakes[i]]_vars

\* Witness of C20: a human that died in an earlier tick is still in the
\* list after a later tick.
C20_Witness ==
    /\ game.frame >= 2
    /\ \E i \in 1..Len(game.snakes) :
         /\ ~game.snakes[i].isAI /\ ~game.snakes[i].alive
         /\ game.snakes[i].PlayerID \notin game.ev.wall \cup game.ev.killed

\* ------------------------------------------------------------------------
\* Properties of the handlers of the drain
\* ------------------------------------------------------------------------
\* The steps in which the drain receives a join, a leave, a respawn: only
\* the drain takes a message from these channels.
JoinStep == tickPc = "drain" /\ joinCh # << >> /\ joinCh' = Tail(joinCh)

LeaveStep == tickPc = "drain" /\ leaveCh # << >> /\ leaveCh' = Tail(leaveCh)

RespawnStep ==
    tickPc = "drain" /\ respawnCh # << >> /\ respawnCh' = Tail(respawnCh)

\* What a join of session p does to the world: the first alive AI, if any,
\* is gone, one alive human with the id and the name of the session is
\* appended and is the session's snake, the session is registered and the
\* join counter incremented.
JoinEffects(p) ==
    LET ais == {i \in 1..Len(snakes) : snakes[i].isAI /\ snakes[i].alive}
        rest == IF ais = {} THEN snakes ELSE RemoveAt(snakes, SetMin(ais))
        new == snakes'[Len(snakes')]
    IN  /\ Len(snakes') = Len(rest) + 1
        /\ SubSeq(snakes', 1, Len(rest)) = rest
        /\ new.alive /\ ~new.isAI /\ new.id = p /\ new.name = pname[p]
        /\ psnake'[p] = new.uid
        /\ players' = players \cup {p}
        /\ totalJoins' = totalJoins + 1

\* One frame has been added to the queue of session p: a state frame with
\* food and without summary (bytes 1, 1).
InitialFrameQueued(p) ==
    /\ Len(sendCh'[p]) = Len(sendCh[p]) + 1
    /\ SubSeq(sendCh'[p], 1, Len(sendCh[p])) = sendCh[p]
    /\ HeaderBytes(sendCh'[p][Len(sendCh'[p])]) = <<1, 1>>

C17_LeaveRemovesSession ==
    [][LeaveStep =>
         LET id == Head(leaveCh)
             ai == snakes'[Len(snakes')]
         IN  IF id \in players
             THEN /\ psnake[id] # 0
                  /\ HasSnake(snakes, psnake[id])
                  /\ Len(snakes') = Len(snakes)
                  /\ SubSeq(snakes', 1, Len(snakes) - 1)
                        = RemoveAt(snakes, SnakeIdx(snakes, psnake[id]))
                  /\ ai.isAI /\ ai.alive
                  /\ \A i \in 1..Len(snakes) : snakes[i].id # ai.id
                  /\ players' = players \ {id}
                  /\ totalLeaves' = totalLeaves + 1
             ELSE UNCHANGED worldVars]_vars

\* Witness of C17: the leave of a registered session has been processed.
C17_Witness ==
    \E p \in Sessions :
        /\ rdPc[p] = "gone" /\ ~Pending(leaveCh, p)
        /\ totalLeaves = 1
        /\ p \notin players
        /\ psnake[p] # 0
        /\ \A i \in 1..Len(snakes) : snakes[i].id # p
        /\ snakes[Len(snakes)].id = -(AICount + 1)

\* C18: a respawn request of a session that is not registered, or whose
\* snake is alive, leaves the snake list, the session table, the sessions'
\* snakes and every metadata cache unchanged.
C18_InvalidRespawnIgnored ==
    [][RespawnStep =>
         LET id == Head(respawnCh)
             valid == /\ id \in players
                      /\ psnake[id] # 0
                      /\ ~OwnSnake(id).alive
         IN  ~valid => UNCHANGED <<snakes, players, psnake, knownSnakes>>]_vars

\* Witness of C18: no join has been processed yet and a session has sent a
\* respawn request that the drain has received: each of its messages is an
\* input, a join still pending, or a respawn request.
C18_Witness ==
    /\ totalJoins = 0
    /\ respawnCh = << >>
    /\ \E p \in Sessions :
         msgsSent[p] - Len(sentIn[p])
            - Cardinality({i \in 1..Len(joinCh) : joinCh[i] = p}) >= 1

\* ------------------------------------------------------------------------
\* A respawn seen by another session under load
\* ------------------------------------------------------------------------
\* Two sessions connect and join before the first tick.  The first is the
\* one whose snake dies and respawns; the second is the one that watches:
\* its writer lags behind, and its client joins again while its queue is
\* full.
Respawner == 1
Watcher == 2

EarlyConnect == frame = 0 /\ Connect(SessionSlots)

EarlyJoin(p) ==
    /\ frame = 0
    /\ msgsSent[p] = 0
    /\ ReaderJoin(p)
    /\ pname'[p] = PlayerName

WatcherJoinsAgain ==
    /\ Backlogged(Watcher)
    /\ ReaderJoin(Watcher)
    /\ pname'[Watcher] = PlayerName

RespawnRequest ==
    /\ Respawner \in players
    /\ ~OwnSnake(Respawner).alive
    /\ ReaderRespawn(Respawner)

\* The tick in which no snake dies but, once the queue of the watcher is
\* full, the snake of the respawner.
RespawnTickRest ==
    /\ TickRest
    /\ \A i \in 1..Len(snakes) :
         snakes[i].alive /\ ~snakes'[i].alive
            => Backlogged(Watcher) /\ snakes[i].id = Respawner

NextRespawn ==
    \/ TickStart(QueueMaxFrame)
    \/ DrainJoin
    \/ DrainRespawn
    \/ DrainDefault
    \/ RespawnTickRest
    \/ EarlyConnect
    \/ \E p \in Sessions : EarlyJoin(p)
    \/ WatcherJoinsAgain
    \/ RespawnRequest
    \/ LaggingWrite(Watcher)

SpecRespawn == Init /\ [][NextRespawn]_vars

\* C19: processing the respawn of a session whose snake is dead removes the
\* corpse and leaves an alive snake with the id of the session, and the
\* next frame queued to another session that shows the id carries it with
\* metadata, whatever that session's known set held.
C19_RespawnedSnakeSentWithMeta ==
    /\ [][RespawnStep /\ canRespawn(Head(respawnCh)) =>
            LET id == Head(respawnCh)
                new == snakes'[Len(snakes')]
            IN  /\ Len(snakes') = Len(snakes)
                /\ SubSeq(snakes', 1, Len(snakes) - 1)
                      = RemoveAt(snakes, SnakeIdx(snakes, psnake[id]))
                /\ new.alive /\ ~new.isAI /\ new.id = id
                /\ psnake'[id] = new.uid]_vars
    /\ [](\A p \in Sessions : \A j \in 1..Len(sendCh[p]) :
            sendCh[p][j].stale = {})

\* ------------------------------------------------------------------------
\* Properties of the rebirth of an AI
\* ------------------------------------------------------------------------
DeadAIs(g) ==
    {i \in 1..Len(g.snakes) : g.snakes[i].isAI /\ ~g.snakes[i].alive}

\* A tick and the dead AI at index i: the AI is still dead after the tick
\* when fewer than AIRespawnTicks ticks have passed since its death, and
\* alive with the same name when the tick is the AIRespawnTicks-th.
RebornOnTime(i) ==
    LET s == game.snakes[i]
        t == game'.snakes[i]
        due == s.diedAt + game.cfg.AIRespawnTicks
    IN  /\ game.frame < due
        /\ game'.frame < due => ~t.alive
        /\ game'.frame = due => t.alive /\ t.isAI /\ t.Name = s.Name

\* C21 as stated: an AI that dies is alive again after AIRespawnTicks
\* further ticks and not earlier, with the same name and at the position of
\* the list at which it died.
C21_RebornAtSamePosition ==
    [][TickStep =>
         \A i \in DeadAIs(game) :
            /\ RebornOnTime(i)
            /\ game'.frame = game.snakes[i].diedAt + game.cfg.AIRespawnTicks
                  => i = game.snakes[i].diedIdx]_vars

\* C21 as amended: an AI that dies is alive again after AIRespawnTicks
\* further ticks and not earlier, with the same name and in the same list
\* element; between the ticks the element keeps its content and moves only
\* towards the front of the list (when a join removes an earlier snake).
C21_RebornInSameElement ==
    [][/\ TickStep => \A i \in DeadAIs(game) : RebornOnTime(i)
       /\ ~TickStep =>
            \A i \in DeadAIs(game) :
               \E j \in 1..i : /\ j <= Len(game'.snakes)
                               /\ game'.snakes[j] = game.snakes[i]]_vars

\* Witness of C21: an AI that died has been reborn, alive under a fresh id
\* and its old name, at an index lower than the one at which it died.
C21_Witness ==
    \E i \in 1..Len(game.snakes) :
        LET s == game.snakes[i]
        IN  /\ s.isAI /\ s.alive
            /\ s.diedAt > 0
            /\ game.frame >= s.diedAt + game.cfg.AIRespawnTicks
            /\ s.PlayerID < -AICount
            /\ s.Name \in {AIName(k) : k \in 1..AICount}
            /\ i < s.diedIdx

\* ------------------------------------------------------------------------
\* Properties of the collision resolution
\* ------------------------------------------------------------------------
\* Snakes a and b of world g are alive and vulnerable and the head of each
\* touches the body of the other (from the sixth segment on).
Mutual(g, a, b) ==
    /\ g.snakes[a].alive /\ g.snakes[a].InvTimer = 0
    /\ g.snakes[b].alive /\ g.snakes[b].InvTimer = 0
    /\ b \in hitBy(g, a)
    /\ a \in hitBy(g, b)

\* Snake b of world g touches with its head the body of an alive snake other
\* than a.
HitsThird(g, a, b) == hitBy(g, b) \ {a} # {}

\* C22 as stated: when the collision resolution of a tick finds two
\* vulnerable alive snakes each with its head on the other's body, the one
\* earlier in the list is dead and the later one alive after the tick.
C22_EarlierDiesLaterSurvives ==
    [][TickStep =>
         LET pre == beforeCollisions(game, game.rand)
         IN  \A a, b \in 1..Len(pre.snakes) :
                a < b /\ Mutual(pre, a, b)
                   => ~game'.snakes[a].alive /\ game'.snakes[b].alive]_vars

\* C22 as amended: the one earlier in the list is dead after the tick, and
\* the later one is alive after it when its head touches the body of no
\* third alive snake.
C22_EarlierDiesLaterSurvivesPair ==
    [][TickStep =>
         LET pre == beforeCollisions(game, game.rand)
         IN  \A a, b \in 1..Len(pre.snakes) :
                a < b /\ Mutual(pre, a, b)
                   => /\ ~game'.snakes[a].alive
                      /\ ~HitsThird(pre, a, b) => game'.snakes[b].alive]_vars

\* The head of snake i of world g is within kill distance of the body of
\* snake o, alive or not.
Touches(g, i, o) ==
    \E k \in 6..Len(g.snakes[o].Segments) :
        Abs(g.snakes[i].Segments[1] - g.snakes[o].Segments[k])
           < headRadius(g.snakes[i]) + bodyRadius(g.snakes[o]) - 4000

\* Witness of C22: the tick has killed by collision a snake whose head lies
\* on the body of a later, vulnerable snake whose head lies on its body, and
\* the later one has received the bonus and is alive.
C22_Witness ==
    \E a, b \in 1..Len(game.snakes) :
        /\ a < b
        /\ ~game.snakes[a].alive /\ game.snakes[a].diedAt = game.frame
        /\ game.snakes[a].PlayerID \in game.ev.killed
        /\ game.snakes[b].alive /\ game.snakes[b].InvTimer = 0
        /\ game.snakes[b].PlayerID \in game.ev.bonus
        /\ Touches(game, a, b) /\ Touches(game, b, a)

\* ------------------------------------------------------------------------
\* Properties of killSnake
\* ------------------------------------------------------------------------
\* The step in which snake i dies.
Dies(i) == game.snakes[i].alive /\ ~game'.snakes[i].alive

\* The death of snake i appends n pellets to the food list, at every
\* step-th segment of the corpse from the head on.
Scatters(i, step, n) ==
    /\ Len(game'.foods) = Len(game.foods) + n
    /\ SubSeq(game'.foods, 1, Len(game.foods)) = game.foods
    /\ \A j \in 1..n :
          game'.foods[Len(game.foods) + j].X
             = game.snakes[i].Segments[1 + step * (j - 1)]

RestStep == tickPc = "world" /\ tickPc' # "world"

\* The queue of session p has received one frame in the step.
OneFrameQueued(p) ==
    /\ Len(sendCh'[p]) = Len(sendCh[p]) + 1
    /\ SubSeq(sendCh'[p], 1, Len(sendCh[p])) = sendCh[p]

\* C24: a tick broadcasts iff its frame number is a multiple of 2; the
\* broadcast increments the network-tick counter n, and every frame it
\* queues has the food flag iff n mod 9 = 0 and the summary flag iff
\* n mod 2 = 0.
C24_BroadcastCadence ==
    [][RestStep =>
         IF frame % 2 = 0
         THEN /\ netTick' = netTick + 1
              /\ \A p \in Sessions :
                    \/ sendCh'[p] = sendCh[p]
                    \/ /\ OneFrameQueued(p)
                       /\ LET f == sendCh'[p][Len(sendCh'[p])]
                          IN  /\ f.food <=> netTick' % 9 = 0
                              /\ f.summary <=> netTick' % 2 = 0
                              /\ HeaderBytes(f)[2] % 2 = 1 <=> netTick' % 9 = 0
                              /\ HeaderBytes(f)[2] \div 2 = 1 <=> netTick' % 2 = 0
              /\ \A p \in players :
                    psnake[p] # 0 /\ Len(sendCh[p]) < SendChCap
                       => OneFrameQueued(p)
         ELSE netTick' = netTick /\ sendCh' = sendCh]_vars

\* Witness of C24: the ninth broadcast (frame 18) has queued a frame with
\* food and without summary, after earlier broadcasts queued frames with
\* summary and without food.
C24_Witness ==
    /\ tickPc = "wait" /\ frame = 18 /\ netTick = 9
    /\ \E p \in players :
         /\ ~lastDropped[p]
         /\ Len(sendCh[p]) >= 2
         /\ HeaderBytes(sendCh[p][Len(sendCh[p])]) = <<1, 1>>
         /\ HeaderBytes(sendCh[p][Len(sendCh[p]) - 1]) = <<1, 2>>

\* ------------------------------------------------------------------------
\* Properties of the AI
\* ------------------------------------------------------------------------
AILabels == {"wander", "food", "hunt", "flee"}

\* C25: the state label of every AI is one of wander, food, hunt, flee, and
\* a tick leaves with the label flee every alive AI whose head, when the
\* tick runs updateAI on it, is less than 300 from a wall.
C25_LabelsAndFleeAtWall ==
    /\ [](\A i \in 1..Len(game.snakes) :
             game.snakes[i].isAI => game.snakes[i].AIState \in AILabels)
    /\ [][TickStep =>
            \A i \in 1..Len(game.snakes) :
               LET s == game.snakes[i]
                   x == s.Segments[1]
               IN  s.isAI /\ s.alive /\ (x < 300000 \/ x > WorldSize - 300000)
                      => game'.snakes[i].AIState = "flee"]_vars

\* Witness of C25: an AI near a wall has just been set to flee, while
\* another AI carries another label.
C25_Witness ==
    /\ game.frame > 0
    /\ \E i, j \in 1..Len(game.snakes) :
         LET s == game.snakes[i]
             x == s.Segments[1]
         IN  /\ s.isAI /\ s.alive
             /\ x < 300000 \/ x > WorldSize - 300000
             /\ s.AIState = "flee" /\ s.AIStateTimer = 30
             /\ game.snakes[j].isAI /\ game.snakes[j].alive
             /\ game.snakes[j].AIState \in {"food", "hunt"}

\* ------------------------------------------------------------------------
\* Properties of the metadata cache
\* ------------------------------------------------------------------------
\* The step has queued a frame to session p.
Enqueues(p) == enq'[p] = enq[p] + 1

\* C26: in every frame that is queued a snake carries metadata iff its id
\* was not in the session's known set before the serialization, and after
\* the step the known set is exactly the set of the ids of the frame.
C26_MetaIffUnknownThenKnownIsVisible ==
    [][\A p \in Sessions :
          Enqueues(p) =>
             LET f == sendCh'[p][Len(sendCh'[p])]
             IN  /\ \A k \in 1..Len(f.snakes) :
                       f.snakes[k].hasMeta <=> f.snakes[k].id \notin knownSnakes[p]
                 /\ knownSnakes'[p] = FrameIds(f)]_vars

\* Witness of C26: the frame queued last to a session carries a snake with
\* metadata and one without, the known set is the set of its ids, and an
\* id that was sent with metadata earlier has been forgotten.
C26_Witness ==
    \E p \in players :
        /\ sendCh[p] # << >>
        /\ ~lastDropped[p]
        /\ LET f == sendCh[p][Len(sendCh[p])]
           IN  /\ f.n = enq[p]
               /\ knownSnakes[p] = FrameIds(f)
               /\ FrameMeta(f) # {}
               /\ FrameIds(f) \ FrameMeta(f) # {}
               /\ metaSeen[p] \ knownSnakes[p] # {}

\* ------------------------------------------------------------------------
\* Properties of the viewport
\* ------------------------------------------------------------------------
\* The indexes of the visible set that was computed.
VisibleSet == {game.visible[k] : k \in 1..Len(game.visible)}

\* C27: the visible set of a session contains the session's own snake,
\* alive or dead, and any other snake iff it is alive, has a segment, and
\* its head is less than ViewDist + 1000 away in x and in y from the own
\* head, or from the centre of the arena when the session has no snake.
C27_VisibleSet ==
    game.viewed =>
       LET c == IF game.own # 0 THEN game.snakes[game.own].Segments[1]
                ELSE [X |-> game.ws \div 2, Y |-> game.ws \div 2]
       IN  /\ game.own # 0 => game.own \in VisibleSet
           /\ \A i \in 1..Len(game.snakes) :
                 i # game.own =>
                    (i \in VisibleSet <=>
                       /\ game.snakes[i].alive
                       /\ Len(game.snakes[i].Segments) >= 1
                       /\ Abs(game.snakes[i].Segments[1].X - c.X) < 3500000
                       /\ Abs(game.snakes[i].Segments[1].Y - c.Y) < 3500000)

\* Witness of C27: the view of a session whose snake is dead has been
\* computed; it holds the own snake and an alive snake 3499 away in x and
\* in y, and not an alive snake 3500 away.
C27_Witness ==
    /\ game.viewed
    /\ game.own # 0 /\ ~game.snakes[game.own].alive
    /\ game.own \in VisibleSet
    /\ \E i, j \in 1..Len(game.snakes) :
         LET c == game.snakes[game.own].Segments[1]
         IN  /\ i \in VisibleSet /\ i # game.own
             /\ Abs(game.snakes[i].Segments[1].X - c.X) = 3499000
             /\ Abs(game.snakes[i].Segments[1].Y - c.Y) = 3499000
             /\ j \notin VisibleSet /\ game.snakes[j].alive
             /\ Abs(game.snakes[j].Segments[1].X - c.X) = 3500000

\* ------------------------------------------------------------------------
\* Properties of the stats protocol
\* ------------------------------------------------------------------------
\* Where the request of requester r is: on the stats-request channel, held
\* by the drain that received it, or answered on the reply channel.
Requested(r) == Cardinality({i \in 1..Len(statsReqCh) : statsReqCh[i] = r})

Answers(r) == Len(replyCh[r])

\* The drain step that receives a stats request, and the one that computes
\* the snapshot and sends it.
StatsRecvStep == tickPc = "drain" /\ tickPc' = "reply"

StatsReplyStep == tickPc = "reply" /\ tickPc' = "drain"

\* C28: a stats request placed on the stats-request channel is answered
\* with exactly one snapshot in the next drain: a waiting requester has
\* one request or one answer and never both, the drain that received the
\* request sends one snapshot of the current frame to it, no request is
\* left when the drain has returned, and receiving the request and
\* computing the snapshot change no world state.
C28_StatsAnsweredOnceInNextDrain ==
    /\ [](\A r \in Requesters :
            /\ Requested(r) + Answers(r) + (IF replyTo = r THEN 1 ELSE 0)
                  = (IF reqPc[r] = "waiting" THEN 1 ELSE 0)
            /\ \A i \in 1..Answers(r) : replyCh[r][i].Frame <= frame
            /\ (tickPc \notin {"wait", "drain", "reply"} /\ reqPc[r] = "waiting")
                  => Answers(r) = 1)
    /\ [][/\ StatsRecvStep => UNCHANGED <<game, worldVars>>
          /\ StatsReplyStep =>
                /\ UNCHANGED <<game, worldVars, statsReqCh>>
                /\ replyCh' = [replyCh EXCEPT
                                  ![replyTo] = Append(@, buildSnapshot)]
                /\ replyCh'[replyTo][1].Frame = frame]_vars

\* Witness of C28: a request placed after frame 1 has been answered by the
\* drain of frame 2 and the tick is past its drain; the requester has not
\* taken the snapshot yet.
C28_Witness ==
    /\ tickPc \notin {"wait", "drain", "reply"}
    /\ \E r \in Requesters :
          /\ reqPc[r] = "waiting"
          /\ replyCh[r] # << >>
          /\ replyCh[r][1].Frame = 2
          /\ frame = 2

\* ------------------------------------------------------------------------
\* Shutdown (engine.Server: Start, Stop; Game.Run)
\* ------------------------------------------------------------------------
\* In this scenario the variable game holds the Server: its Game and its
\* httpServer, which is nil until Start, then serving, then closed.
NewServer == [Game |-> FirstGame, httpServer |-> "nil"]

InitStop == InitSessions /\ game = NewServer

\* Server.Start: starts the tick task (go s.Game.Run()) and the HTTP
\* server.
ServerStart ==
    /\ game.httpServer = "nil"
    /\ game' = [game EXCEPT !.httpServer = "serving"]
    /\ UNCHANGED sessionVars

\* Server.Stop: closes the HTTP server, and nothing else: no channel is
\* closed and no field of the Game is written.  On a nil or closed
\* server it changes nothing.
ServerStop ==
    /\ game.httpServer = "serving"
    /\ game' = [game EXCEPT !.httpServer = "closed"]
    /\ UNCHANGED sessionVars

\* Run: for range ticker.C { g.tick() }.  The loop has no other exit than
\* the close of the ticker's channel, which nothing closes: a tick starts
\* whenever the ticker fires, whatever the state of the HTTP server.
RunTick ==
    /\ game.httpServer # "nil"
    /\ TickStart(StopMaxFrame)

\* The HTTP server accepts a connection only while it serves; the
\* connections it has handed to sessions are not closed by Close.
Accept ==
    /\ game.httpServer = "serving"
    /\ Connect(MaxSessions)

NextStop ==
    \/ ServerStart
    \/ ServerStop
    \/ RunTick
    \/ TickBody
    \/ Accept
    \/ \E p \in Sessions : ReaderJoin(p)
    \/ \E p \in Sessions : ReaderRespawn(p)
    \/ \E p \in Sessions : ReaderInput(p)
    \/ \E p \in Sessions : ReaderExit(p)
    \/ \E p \in Sessions : SendLeave(p)
    \/ \E p \in Sessions : WriterWrite(p)
    \/ \E p \in Sessions : WriterExit(p)

SpecStop == InitStop /\ [][NextStop]_vars

\* C29: once Server.Stop has been requested the tick loop finishes the
\* tick it is in and runs no further tick: no tick starts while the HTTP
\* server is closed.
C29_NoTickAfterStop ==
    [][(game.httpServer = "closed" /\ tickPc = "wait") => tickPc' = "wait"]_vars

\* ------------------------------------------------------------------------
\* Replay: two runs of the tick task with the same seed and the same
\* messages (drainMessages, tick)
\* ------------------------------------------------------------------------
\* In this scenario the variable game holds the messages of one client
\* (script, of which the first sent ones have been passed to the channels),
\* the draws of the seed and two runs of the tick task, each with its
\* world g, its inbound channels and its position.  A message reaches the
\* channels of both runs between the same two ticks; inside a drain each
\* run takes any of its ready channels.
Runs == {1, 2}

ReplayPlayer == 1

ReplayMsgs ==
    {[t |-> "join", in |-> [Angle |-> 0, Boost |-> FALSE]],
     [t |-> "respawn", in |-> [Angle |-> 0, Boost |-> FALSE]]}
    \cup {[t |-> "input", in |-> i] : i \in GameInputs}

\* The sequences of at most ScriptLen messages with at most one join.
Scripts ==
    {sc \in UNION {[1..n -> ReplayMsgs] : n \in 0..ScriptLen} :
        Cardinality({i \in DOMAIN sc : sc[i].t = "join"}) <= 1}

InitReplay ==
    /\ InitSessions
    /\ \E sc \in Scripts, x \in JoinXs, a \in LineAngles, rand \in Draws :
         game = [script |-> sc, sent |-> 0, seed |-> [x |-> x, angle |-> a],
                 run |-> [k \in Runs |->
                            [g |-> NewGame(DefaultDrain,
                                           [i \in 1..AICount |-> 500000],
                                           0, 3, 500000, rand),
                             pc |-> "wait",
                             inputCh |-> << >>, joinCh |-> << >>,
                             respawnCh |-> << >>]]]

\* The reader of the client passes its next message to the channel of its
\* kind, in both runs between the same two ticks.
deliver(r, m) ==
    CASE m.t = "join" -> [r EXCEPT !.joinCh = Append(@, m)]
      [] m.t = "input" -> [r EXCEPT !.inputCh = Append(@, m)]
      [] OTHER -> [r EXCEPT !.respawnCh = Append(@, m)]

ReplaySend ==
    /\ \A k \in Runs : game.run[k].pc = "wait"
    /\ game.run[1].g.frame = game.run[2].g.frame
    /\ game.sent < Len(game.script)
    /\ game' = [game EXCEPT
                  !.sent = @ + 1,
                  !.run = [k \in Runs |->
                             deliver(game.run[k], game.script[game.sent + 1])]]
    /\ UNCHANGED sessionVars

\* Run: the ticker of run k fires.  The runs are followed tick by tick:
\* a run does not start a tick while the other one is a tick behind.
ReplayFire(k) ==
    /\ game.run[k].pc = "wait"
    /\ game.run[k].g.frame < ReplayMaxFrame
    /\ game.run[k].g.frame <= game.run[3 - k].g.frame
    /\ game' = [game EXCEPT !.run[k].pc = "drain"]
    /\ UNCHANGED sessionVars

\* drainMessages of run k: the select takes the join channel.
ReplayJoin(k) ==
    /\ game.run[k].pc = "drain"
    /\ game.run[k].joinCh # << >>
    /\ game' = [game EXCEPT
                  !.run[k].joinCh = Tail(@),
                  !.run[k].g = handleJoin(@, ReplayPlayer, game.seed.x,
                                          game.seed.angle)]
    /\ UNCHANGED sessionVars

\* drainMessages of run k: the select takes the input channel.
ReplayInput(k) ==
    /\ game.run[k].pc = "drain"
    /\ game.run[k].inputCh # << >>
    /\ game' = [game EXCEPT
                  !.run[k].inputCh = Tail(@),
                  !.run[k].g = applyInput(@, ReplayPlayer,
                                          Head(game.run[k].inputCh).in)]
    /\ UNCHANGED sessionVars

\* drainMessages of run k: the select takes the respawn channel.
ReplayRespawn(k) ==
    /\ game.run[k].pc = "drain"
    /\ game.run[k].respawnCh # << >>
    /\ game' = [game EXCEPT
                  !.run[k].respawnCh = Tail(@),
                  !.run[k].g = handleRespawn(@, ReplayPlayer, game.seed.x,
                                             game.seed.angle)]
    /\ UNCHANGED sessionVars

\* drainMessages of run k returns (default: every channel is empty) and
\* the rest of the tick runs.
ReplayTick(k) ==
    /\ game.run[k].pc = "drain"
    /\ game.run[k].joinCh = << >>
    /\ game.run[k].inputCh = << >>
    /\ game.run[k].respawnCh = << >>
    /\ game' = [game EXCEPT !.run[k].g = tick(@, @.rand),
                            !.run[k].pc = "wait"]
    /\ UNCHANGED sessionVars

NextReplay ==
    \/ ReplaySend
    \/ \E k \in Runs :
         \/ ReplayFire(k)
         \/ ReplayJoin(k)
         \/ ReplayInput(k)
         \/ ReplayRespawn(k)
         \/ ReplayTick(k)

SpecReplay == InitReplay /\ [][NextReplay]_vars

\* The world state of a run: the frame, the snakes, the pellets and the
\* counters (not the event log kept for the properties).
WorldOf(k) ==
    [frame |-> game.run[k].g.frame,
     snakes |-> game.run[k].g.snakes,
     foods |-> game.run[k].g.foods,
     totalKills |-> game.run[k].g.totalKills,
     aiIDCounter |-> game.run[k].g.aiIDCounter]

\* C30: two runs with the same seed that were given the same messages
\* between the same ticks have identical worlds after the same number of
\* ticks, whichever ready channel each drain took.
C30_SameSeedSameWorld ==
    (/\ \A k \in Runs : game.run[k].pc = "wait"
     /\ game.run[1].g.frame = game.run[2].g.frame)
       => WorldOf(1) = WorldOf(2)

\* ------------------------------------------------------------------------
\* Snake ids and their 16-bit form in the frames (nextPlayerID, nextAIID,
\* serializeState, buildSummaryBytes)
\* ------------------------------------------------------------------------
\* uint16(int16(v)) read back as a signed 16-bit number.
Int16(v) == ((v + 32768) % 65536) - 32768

\* The values of a counter from which the ids are followed: a fresh
\* server, and a server that has drawn 32764 ids.
IdStarts == {0, 32764}

\* In this scenario the variable game holds the two id counters, how many
\* ids have been drawn since the start, and the snakes of the last frame:
\* the newest human and the newest AI, each with the id written for it.
InitIds ==
    /\ InitSessions
    /\ \E pc \in IdStarts, ac \in IdStarts :
         game = [playerIDCounter |-> pc, aiIDCounter |-> ac + AICount,
                 drawn |-> 0, human |-> 0, ai |-> -(ac + AICount),
                 written |-> << >>]

\* HandleWS: nextPlayerID; handleJoin gives the snake the id of the session.
IdConnect ==
    /\ game.drawn < IdDraws
    /\ game' = [game EXCEPT !.playerIDCounter = @ + 1,
                            !.human = game.playerIDCounter + 1,
                            !.drawn = @ + 1,
                            !.written = << >>]
    /\ UNCHANGED sessionVars

\* respawnAI (and the AI of handleLeave): nextAIID.
IdRespawnAI ==
    /\ game.drawn < IdDraws
    /\ game' = [game EXCEPT !.aiIDCounter = @ + 1,
                            !.ai = -(game.aiIDCounter + 1),
                            !.drawn = @ + 1,
                            !.written = << >>]
    /\ UNCHANGED sessionVars

\* serializeState, buildSummaryBytes: the playerId of each snake is
\* written as uint16(int16(s.PlayerID)).
IdWrite ==
    /\ game.written = << >>
    /\ game' = [game EXCEPT !.written =
                   (IF game.human # 0
                    THEN <<[isAI |-> FALSE, PlayerID |-> game.human,
                            wire |-> Int16(game.human)]>>
                    ELSE << >>)
                   \o <<[isAI |-> TRUE, PlayerID |-> game.ai,
                         wire |-> Int16(game.ai)]>>]
    /\ UNCHANGED sessionVars

NextIds == IdConnect \/ IdRespawnAI \/ IdWrite

SpecIds == InitIds /\ [][NextIds]_vars

\* C31: every human snake has a positive id and every AI snake a negative
\* one, and the 16-bit playerId written in a frame has the same sign.
C31_IdSignKeptOnTheWire ==
    /\ game.human >= 0 /\ game.ai < 0
    /\ \A i \in 1..Len(game.written) :
          IF game.written[i].isAI
          THEN game.written[i].PlayerID < 0 /\ game.written[i].wire < 0
          ELSE game.written[i].PlayerID > 0 /\ game.written[i].wire > 0

\* ------------------------------------------------------------------------
\* The reader and the frames of a client (readPump)
\* ------------------------------------------------------------------------
\* A client frame: its message type, its length in bytes, what its text
\* holds (no JSON at all, JSON that is not an object, an object without
\* "t", an object with an unknown "t", a join, a respawn) and the first
\* byte of a binary frame.
TextFrames ==
    [type : {"text"}, len : {20, 513},
     body : {"garbage", "array", "noT", "otherT", "join", "respawn"},
     b0 : {0}]

BinaryFrames ==
    [type : {"binary"}, len : {0, 3, 4, 5, 513}, body : {"bytes"}, b0 : {1, 2}]

\* One accepting variant of the reader: any binary frame of type 2 is an
\* input, whatever its length.
readPumpAnyLength(f) ==
    IF f.len > ReadLimit THEN "exit"
    ELSE IF f.type = "text"
         THEN IF f.body \in {"garbage", "array"} THEN "none"
              ELSE IF f.body = "join" THEN "join"
              ELSE IF f.body = "respawn" THEN "respawn"
              ELSE "none"
         ELSE IF f.len >= 1 /\ f.b0 = 2 THEN "input" ELSE "none"

\* readPump, one iteration: what the reader does with frame f.  ReadMessage
\* fails on a frame above the read limit and the reader returns; a text
\* that does not unmarshal into an object is skipped; of the objects only
\* join and respawn send a message; a binary frame is an input when it has
\* 4 bytes and starts with 2.
readPump(f) ==
    IF f.len > ReadLimit THEN "exit"
    ELSE IF f.type = "text"
         THEN IF f.body \in {"garbage", "array"} THEN "none"
              ELSE IF f.body = "join" THEN "join"
              ELSE IF f.body = "respawn" THEN "respawn"
              ELSE "none"
         ELSE IF f.len = 4 /\ f.b0 = 2 THEN "input" ELSE "none"

\* In this scenario the variable game holds one session: the position of
\* its reader, the number of messages on each channel to the tick task,
\* the frames read, the last one, and how many frames were skipped.
InitFrames ==
    /\ InitSessions
    /\ game = [rd |-> "reading", joinCh |-> 0, respawnCh |-> 0, inputCh |-> 0,
               leaveCh |-> 0, reads |-> 0, skipped |-> 0,
               last |-> [type |-> "none", len |-> 0, body |-> "none", b0 |-> 0]]

\* readPump: the client sends frame f and the reader takes it.
ReadFrame(f) ==
    /\ game.rd = "reading"
    /\ game.reads < FrameReads
    /\ LET out == readPump(f)
       IN  game' = [game EXCEPT
                      !.reads = @ + 1,
                      !.last = f,
                      !.rd = IF out = "exit" THEN "returned" ELSE @,
                      !.skipped = IF out = "none" THEN @ + 1 ELSE @,
                      !.joinCh = IF out = "join" THEN @ + 1 ELSE @,
                      !.respawnCh = IF out = "respawn" THEN @ + 1 ELSE @,
                      !.inputCh = IF out = "input" THEN @ + 1 ELSE @]
    /\ UNCHANGED sessionVars

\* HandleWS, after readPump has returned: close(p.done), game.leaveCh <- id.
FrameLeave ==
    /\ game.rd = "returned"
    /\ game' = [game EXCEPT !.rd = "closed", !.leaveCh = @ + 1]
    /\ UNCHANGED sessionVars

NextFrames ==
    \/ \E f \in TextFrames : ReadFrame(f)
    \/ \E f \in BinaryFrames : ReadFrame(f)
    \/ FrameLeave

SpecFrames == InitFrames /\ [][NextFrames]_vars

\* The frames the protocol has no meaning for.
Malformed(f) ==
    \/ f.type = "text" /\ f.body \notin {"join", "respawn"}
    \/ f.type = "binary" /\ (f.len # 4 \/ f.b0 # 2)

\* The step in which the reader takes a frame leaves the channels to the
\* tick task as they are and does not end the reader.
FrameIgnored ==
    /\ game'.joinCh = game.joinCh
    /\ game'.respawnCh = game.respawnCh
    /\ game'.inputCh = game.inputCh
    /\ game'.leaveCh = game.leaveCh
    /\ game'.rd = "reading"

\* C32 as stated: a malformed client frame produces no message on any
\* channel to the tick task and does not end the session.
C32_MalformedFrameIgnored ==
    [][(game'.reads = game.reads + 1 /\ Malformed(game'.last))
          => FrameIgnored]_vars

\* C32, amended: a malformed client frame of at most 512 bytes produces no
\* message on any channel to the tick task and does not end the session;
\* a frame of more than 512 bytes makes the reader return, and the session
\* ends with a leave.
C32_MalformedFrameWithinLimitIgnored ==
    [][/\ (game'.reads = game.reads + 1 /\ Malformed(game'.last)
           /\ game'.last.len <= ReadLimit) => FrameIgnored
       /\ (game'.reads = game.reads + 1 /\ game'.last.len > ReadLimit)
             => game'.rd = "returned"]_vars

\* Witness of C32: the reader has skipped two malformed frames and has
\* then sent the input of a third frame.
C32_Witness ==
    /\ game.skipped = 2
    /\ game.reads = 3
    /\ game.rd = "reading"
    /\ game.inputCh = 1
    /\ game.joinCh = 0 /\ game.respawnCh = 0 /\ game.leaveCh = 0

\* ------------------------------------------------------------------------
\* The name of a join, byte by byte (readPump, case "join")
\* ------------------------------------------------------------------------
\* A name is the sequence of the bytes of its characters; each byte knows
\* its place k in a character of w bytes.  Chars(n, w) is a name of n
\* characters of w bytes each.
Chars(n, w) == [i \in 1..(n * w) |-> [k |-> ((i - 1) % w) + 1, w |-> w]]

\* readPump, case "join": the empty or missing name becomes "Player" and
\* a name of more than 15 bytes is cut to its first 15 bytes
\* (len(name) > 15, name[:15]).
joinName(raw) ==
    LET name == IF raw = << >> THEN Chars(6, 1) ELSE raw
    IN  IF Len(name) > MaxNameLen THEN SubSeq(name, 1, MaxNameLen) ELSE name

\* In this scenario the variable game holds the name a client sends in
\* its join and, once the reader has taken the join, the name registered.
InitNames ==
    /\ InitSessions
    /\ \E n \in 0..NameChars, w \in 1..CharWidth :
         game = [raw |-> Chars(n, w), joined |-> FALSE, name |-> << >>]

NameJoin ==
    /\ ~game.joined
    /\ game' = [game EXCEPT !.joined = TRUE, !.name = joinName(game.raw)]
    /\ UNCHANGED sessionVars

NextNames == NameJoin

SpecNames == InitNames /\ [][NextNames]_vars

\* The characters of a name: the bytes that end a character.
CharCount(name) == Cardinality({i \in 1..Len(name) : name[i].k = name[i].w})

\* The first n characters of a name.
FirstChars(name, n) ==
    IF CharCount(name) <= n THEN name
    ELSE SubSeq(name, 1, n * name[1].w)

\* C33: the name a join registers is the client's name cut to at most 15
\* characters, or "Player" when the client's name is empty or missing; it
\* has between 1 and 15 characters.
C33_NameCutToFifteenCharacters ==
    game.joined =>
       /\ game.name = (IF game.raw = << >> THEN Chars(6, 1)
                       ELSE FirstChars(game.raw, MaxNameLen))
       /\ CharCount(game.name) >= 1
       /\ CharCount(game.name) <= MaxNameLen
       /\ game.name[Len(game.name)].k = game.name[Len(game.name)].w

\* ------------------------------------------------------------------------
\* The embedding API (mobile.Start, mobile.Stop, mobile.IsRunning)
\* ------------------------------------------------------------------------
\* In this scenario the variable game holds the package variable srv (nil
\* or a server), whether the HTTP server of srv listens, whether another
\* program holds the port, the tick tasks started so far, the calls made
\* and the result of the last Start.
InitEmbed ==
    /\ InitSessions
    /\ game = [srv |-> "nil", listening |-> FALSE, portTaken |-> FALSE,
               loops |-> 0, calls |-> 0, err |-> "none"]

\* Another program binds the port, or releases it.
PortChanges ==
    /\ ~game.listening
    /\ game' = [game EXCEPT !.portTaken = ~@]
    /\ UNCHANGED sessionVars

\* mobile.Start while srv is not nil: "server already running".
StartRejected ==
    /\ game.calls < EmbedCalls
    /\ game.srv # "nil"
    /\ game' = [game EXCEPT !.calls = @ + 1, !.err = "already running"]
    /\ UNCHANGED sessionVars

\* mobile.Start with srv nil: srv is set to a new server, then Server.Start
\* starts the tick task and listens; net.Listen succeeds.
StartListens ==
    /\ game.calls < EmbedCalls
    /\ game.srv = "nil"
    /\ ~game.portTaken
    /\ game' = [game EXCEPT !.calls = @ + 1, !.srv = "server",
                            !.loops = @ + 1, !.listening = TRUE,
                            !.err = "none"]
    /\ UNCHANGED sessionVars

\* mobile.Start with srv nil: srv is set to a new server, then Server.Start
\* starts the tick task; net.Listen fails and its error is returned.  srv
\* stays set.
StartFails ==
    /\ game.calls < EmbedCalls
    /\ game.srv = "nil"
    /\ game.portTaken
    /\ game' = [game EXCEPT !.calls = @ + 1, !.srv = "server",
                            !.loops = @ + 1, !.err = "listen"]
    /\ UNCHANGED sessionVars

\* mobile.Stop: Server.Stop closes the HTTP server, srv becomes nil.
MobileStop ==
    /\ game.calls < EmbedCalls
    /\ game' = [game EXCEPT !.calls = @ + 1, !.srv = "nil",
                            !.listening = FALSE]
    /\ UNCHANGED sessionVars

NextEmbed ==
    \/ PortChanges
    \/ StartRejected
    \/ StartListens
    \/ StartFails
    \/ MobileStop

SpecEmbed == InitEmbed /\ [][NextEmbed]_vars

\* mobile.IsRunning: srv != nil.
IsRunning == game.srv # "nil"

\* C34: IsRunning() is true iff a server is running; a Start that returns
\* an error does not make it true and does not keep a later Start from
\* succeeding (a Start is rejected as already running only while a server
\* listens).
C34_IsRunningIffServing ==
    /\ IsRunning <=> game.listening
    /\ game.err = "listen" => ~IsRunning
    /\ game.err = "already running" => game.listening

\* ------------------------------------------------------------------------
\* Properties of the snake list and the session table
\* ------------------------------------------------------------------------
\* The human snakes of the list that carry the id of session p.
SnakesOf(p) == {i \in 1..Len(snakes) : ~snakes[i].isAI /\ snakes[i].id = p}

\* C35: every registered session owns exactly one snake of the list,
\* every human snake of the list is the snake of a registered session, and
\* no two snakes of the list share an id.
C35_OneSnakePerSession ==
    /\ \A p \in players :
          /\ Cardinality(SnakesOf(p)) = 1
          /\ \E i \in SnakesOf(p) : snakes[i].uid = psnake[p]
    /\ \A i \in 1..Len(snakes) :
          ~snakes[i].isAI =>
             (snakes[i].id \in players /\ psnake[snakes[i].id] = snakes[i].uid)
    /\ \A i, k \in 1..Len(snakes) : snakes[i].id = snakes[k].id => i = k

\* ------------------------------------------------------------------------
\* The population of the snake list (handleJoin, handleLeave)
\* ------------------------------------------------------------------------
\* handleLeave, as far as the world goes: the snake of the session leaves
\* the list and a new AI, drawn at x with angle a and a bonus, is appended;
\* the leave of a session without a snake changes nothing.
handleLeave(g, pid, x, a, extra) ==
    IF humanOf(g, pid) = 0 THEN g
    ELSE [g EXCEPT !.snakes =
                      Append(RemoveAt(@, humanOf(g, pid)),
                             createAI(AIName(1), x, a, -(g.aiIDCounter + 1),
                                      extra)),
                   !.aiIDCounter = @ + 1]

\* The seed of the scenario makes every join and every leave draw the same
\* place, angle and bonus (game.rand).
PopJoin(pid) ==
    /\ humanOf(game, pid) = 0
    /\ game' = handleJoin(game, pid, game.rand.x, game.rand.angle)
    /\ UNCHANGED sessionVars

PopLeave(pid) ==
    /\ humanOf(game, pid) # 0
    /\ game.aiIDCounter < AICount + PopLeaves
    /\ game' = handleLeave(game, pid, game.rand.x, game.rand.angle,
                           game.rand.extra)
    /\ UNCHANGED sessionVars

\* More sessions than AIs: each joins once, at any time, and leaves.
InitPopulation == InitSessions /\ game = FirstGame

NextPopulation ==
    \/ GameTick(PopMaxFrame)
    \/ \E pid \in 1..PopSize :
         \/ PopJoin(pid)
         \/ PopLeave(pid)

SpecPopulation == InitPopulation /\ [][NextPopulation]_vars

\* The AI snakes of the list, alive or awaiting their respawn.
AIsOf(g) == {i \in 1..Len(g.snakes) : g.snakes[i].isAI}

\* C36: the number of AI snakes in the list never exceeds AICount, and it
\* equals AICount whenever no session has a snake in the list.
C36_AIPopulationBounded ==
    /\ Cardinality(AIsOf(game)) <= AICount
    /\ (\A i \in 1..Len(game.snakes) : game.snakes[i].isAI)
          => Cardinality(AIsOf(game)) = AICount

\* ------------------------------------------------------------------------
\* Properties of a kill (checkSnakeCollisions)
\* ------------------------------------------------------------------------
RECURSIVE SumTo(_, _)
SumTo(f, n) == IF n = 0 THEN 0 ELSE f[n] + SumTo(f, n - 1)

\* C37: in a tick, every snake that dies in the collision pass was
\* vulnerable and had its head on a body; the kill counter grows by one
\* per death; the target length and the score of a snake grow together
\* and, over the list, by floor(0.3 * segments) per death; and when one
\* snake dies, the whole growth goes to the first snake of the list whose
\* body it hit, and to no other.
C37_KillBonus ==
    [][game'.frame = game.frame + 1 =>
         LET g0 == beforeCollisions(game, game.rand)
             g1 == game'
             n == Len(g0.snakes)
             victims == {i \in 1..n : g0.snakes[i].alive
                                         /\ ~g1.snakes[i].alive}
             gainLen == [i \in 1..n |-> g1.snakes[i].TargetLen
                                          - g0.snakes[i].TargetLen]
             gainScore == [i \in 1..n |-> g1.snakes[i].Score
                                            - g0.snakes[i].Score]
             due == [i \in 1..n |->
                       IF i \in victims
                       THEN (Len(g0.snakes[i].Segments) * 3) \div 10 ELSE 0]
         IN  /\ Len(g1.snakes) = n
             /\ \A i \in 1..n : gainLen[i] >= 0 /\ gainScore[i] = gainLen[i]
             /\ SumTo(gainLen, n) = SumTo(due, n)
             /\ g1.totalKills = g0.totalKills + Cardinality(victims)
             /\ \A s \in victims :
                   /\ g0.snakes[s].InvTimer = 0
                   /\ hitBy(g0, s) # {}
                   /\ g1.snakes[s].Segments = g0.snakes[s].Segments
             /\ \A s \in victims :
                   Cardinality(victims) = 1 =>
                      /\ gainLen[FirstOf(hitBy(g0, s))] = due[s]
                      /\ due[s] >= 3
                      /\ \A k \in 1..n :
                            k # FirstOf(hitBy(g0, s)) => gainLen[k] = 0]_vars

\* Witness of C37: the last tick killed exactly one snake by a body
\* collision, and one snake, still alive, received the bonus.
C37_Witness ==
    /\ Cardinality(game.ev.killed) = 1
    /\ Cardinality(game.ev.bonus) = 1
    /\ game.totalKills = 1
    /\ \E o \in 1..Len(game.snakes) :
          /\ game.snakes[o].PlayerID \in game.ev.bonus
          /\ game.snakes[o].alive
          /\ game.snakes[o].Score >= 3

\* ------------------------------------------------------------------------
\* One food pass (checkFoodCollision)
\* ------------------------------------------------------------------------
\* The pellets of the scenario lie at the head of the snake, just inside
\* the reach of its head and just outside of it, for both radii; their
\* values round down (1.0) and up (2.5).
FoodHead == 500000

Pellets ==
    {[X |-> FoodHead + d, Radius |-> r, Value |-> v] :
        d \in {0, 18299, 18300, 19299, 19300}, r \in {6000, 7000},
        v \in {1000, 2500}}

\* In this scenario the variable game holds one alive snake, the food list
\* before the pass (before) and, once the pass has run (passed), the world
\* it leaves.
InitFood ==
    /\ InitSessions
    /\ \E fs \in UNION {[1..n -> Pellets] : n \in 0..FoodListLen} :
         game = [snakes |-> <<createSnakeAt(PlayerName, FoodHead, 0, FALSE, 1)>>,
                 foods |-> fs, eaten |-> 0, before |-> fs, passed |-> FALSE]

FoodPass ==
    /\ ~game.passed
    /\ game' = [checkFoodCollision(game, 1) EXCEPT !.passed = TRUE]
    /\ UNCHANGED sessionVars

NextFood == FoodPass

SpecFood == InitFood /\ [][NextFood]_vars

\* A pellet within the reach of the head of the scenario's snake.
InReach(f) ==
    Abs(game.snakes[1].Segments[1] - f.X)
       < headRadius(game.snakes[1]) + f.Radius

Count(fs, f) == Cardinality({k \in 1..Len(fs) : fs[k] = f})

\* C38: one food pass of an alive snake removes every pellet within the
\* reach of the head and no other, each as often as it was in the list,
\* and the target length and the score grow by the sum of the rounded
\* values of the removed pellets.
C38_FoodPassEatsExactlyTheReach ==
    game.passed =>
       LET due == [k \in 1..Len(game.before) |->
                     IF InReach(game.before[k])
                     THEN (game.before[k].Value + 500) \div 1000 ELSE 0]
       IN  /\ \A f \in Pellets :
                 Count(game.foods, f)
                    = (IF InReach(f) THEN 0 ELSE Count(game.before, f))
           /\ game.snakes[1].TargetLen
                 = BaseSnakeLen + SumTo(due, Len(game.before))
           /\ game.snakes[1].Score = SumTo(due, Len(game.before))

\* Witness of C38: of three pellets the first was eaten, and the last one,
\* out of reach, has taken its place in front of the second, also out of
\* reach; the snake grew by 3, the rounded value 2.5.
C38_Witness ==
    /\ game.passed
    /\ Len(game.before) = 3
    /\ InReach(game.before[1]) /\ game.before[1].Value = 2500
    /\ ~InReach(game.before[2]) /\ ~InReach(game.before[3])
    /\ game.before[2] # game.before[3]
    /\ game.foods = <<game.before[3], game.before[2]>>
    /\ game.snakes[1].TargetLen = BaseSnakeLen + 3

\* ------------------------------------------------------------------------
\* The steps of one tick (tick, lines 773 to 807)
\* ------------------------------------------------------------------------
\* In this scenario the variable game holds the world (world), the join
\* and input channels with the messages numbered as they are sent, the
\* position of the tick task (pc), the state the last broadcast was
\* serialized from (sent), and for the properties: the messages that were
\* in a channel when the tick began and have not been received (atStart),
\* how many of those were received (applied), and the frames in which the
\* loop over the snakes, the collision pass and the replenishment last ran.
OrderIDs == 1..OrderSize

NothingSent == [frame |-> 0, snakes |-> << >>, foods |-> << >>]

InitOrder ==
    /\ InitSessions
    /\ \E a \in LineAngles, rand \in Draws :
         game = [world |-> NewGame(DefaultDrain, <<200000, 500000, 500000>>,
                                   a, 3, 500000, rand),
                 joinCh |-> << >>, inputCh |-> << >>, msgs |-> 0,
                 joined |-> {}, steered |-> {},
                 pc |-> "wait", sent |-> NothingSent,
                 atStart |-> {}, applied |-> 0,
                 moved |-> 0, collided |-> 0, fed |-> 0]

\* readPump: a join arrives on the join channel.
OrderSendJoin(pid) ==
    /\ game.world.frame <= OrderSendUntil
    /\ pid \notin game.joined
    /\ game' = [game EXCEPT !.joinCh = Append(@, [pid |-> pid, n |-> game.msgs + 1]),
                            !.msgs = @ + 1,
                            !.joined = @ \cup {pid}]
    /\ UNCHANGED sessionVars

\* readPump: an input arrives on the input channel.
OrderSendInput(pid) ==
    /\ game.world.frame <= OrderSendUntil
    /\ pid \in game.joined \ game.steered
    /\ game' = [game EXCEPT
                  !.inputCh = Append(@, [pid |-> pid, n |-> game.msgs + 1,
                                         in |-> [Angle |-> 0, Boost |-> FALSE]]),
                  !.msgs = @ + 1,
                  !.steered = @ \cup {pid}]
    /\ UNCHANGED sessionVars

\* Run: the ticker fires; tick increments the frame and calls drainMessages.
OrderStart ==
    /\ game.pc = "wait"
    /\ game.world.frame < OrderMaxFrame
    /\ game' = [game EXCEPT
                  !.world.frame = @ + 1,
                  !.world.ev = NoEvents,
                  !.pc = "drain",
                  !.applied = 0,
                  !.atStart = {game.joinCh[k].n : k \in 1..Len(game.joinCh)}
                                \cup {game.inputCh[k].n : k \in 1..Len(game.inputCh)}]
    /\ UNCHANGED sessionVars

\* drainMessages, case p := <-g.joinCh.
OrderJoin ==
    /\ game.pc = "drain"
    /\ game.joinCh # << >>
    /\ \E x \in JoinXs, a \in LineAngles :
         game' = [game EXCEPT
                    !.joinCh = Tail(@),
                    !.world = handleJoin(@, Head(game.joinCh).pid, x, a),
                    !.atStart = @ \ {Head(game.joinCh).n},
                    !.applied = IF Head(game.joinCh).n \in game.atStart
                                THEN @ + 1 ELSE @]
    /\ UNCHANGED sessionVars

\* drainMessages, case msg := <-g.inputCh.
OrderInput ==
    /\ game.pc = "drain"
    /\ game.inputCh # << >>
    /\ game' = [game EXCEPT
                  !.inputCh = Tail(@),
                  !.world = applyInput(@, Head(game.inputCh).pid,
                                       Head(game.inputCh).in),
                  !.atStart = @ \ {Head(game.inputCh).n},
                  !.applied = IF Head(game.inputCh).n \in game.atStart
                              THEN @ + 1 ELSE @]
    /\ UNCHANGED sessionVars

\* A drain that returns whatever the channels hold.
drainReturnsAtOnce(joins, inputs) == TRUE

\* drainMessages, default: no channel has a message.
drainReturns(joins, inputs) == joins = << >> /\ inputs = << >>

OrderDrained ==
    /\ game.pc = "drain"
    /\ drainReturns(game.joinCh, game.inputCh)
    /\ game' = [game EXCEPT !.pc = "move"]
    /\ UNCHANGED sessionVars

\* tick, the loop over the snakes: timers of the dead, updateAI,
\* updateSnake, checkFoodCollision.
OrderMove ==
    /\ game.pc = "move"
    /\ game' = [game EXCEPT !.world = stepFrom(@, 1, @.rand),
                            !.moved = game.world.frame,
                            !.pc = "collide"]
    /\ UNCHANGED sessionVars

\* tick: g.checkSnakeCollisions().
OrderCollide ==
    /\ game.pc = "collide"
    /\ game' = [game EXCEPT !.world = checkSnakeCollisions(@),
                            !.collided = game.world.frame,
                            !.pc = "food"]
    /\ UNCHANGED sessionVars

\* tick: the food list is filled up to FoodCount.
OrderFood ==
    /\ game.pc = "food"
    /\ game' = [game EXCEPT !.world.foods = replenish(@, game.world.rand.x),
                            !.fed = game.world.frame,
                            !.pc = "net"]
    /\ UNCHANGED sessionVars

\* What broadcast serializes the frames of a tick from.
Shown(g) == [frame |-> g.frame, snakes |-> g.snakes, foods |-> g.foods]

\* tick: every NetTickRate-th frame is broadcast.
OrderNet ==
    /\ game.pc = "net"
    /\ game' = [game EXCEPT
                  !.sent = IF game.world.frame % NetTickRate = 0
                           THEN Shown(game.world) ELSE @,
                  !.pc = "wait"]
    /\ UNCHANGED sessionVars

NextOrder ==
    \/ \E pid \in OrderIDs : OrderSendJoin(pid)
    \/ \E pid \in OrderIDs : OrderSendInput(pid)
    \/ OrderStart
    \/ OrderJoin
    \/ OrderInput
    \/ OrderDrained
    \/ OrderMove
    \/ OrderCollide
    \/ OrderFood
    \/ OrderNet

SpecOrder == InitOrder /\ [][NextOrder]_vars

\* C39: within a tick no snake moves while a message that was pending when
\* the tick began is still in a channel; the collision pass runs on a world
\* in which the loop over the snakes has run in this tick; pellets are
\* added after the collision pass of this tick; and a broadcast comes after
\* the replenishment of this tick and shows the world as it is then, with
\* at least FoodCount pellets.
C39_TickOrder ==
    /\ [][(game.pc = "move" /\ game'.pc # "move") => game.atStart = {}]_vars
    /\ [][(game.pc \notin {"drain", "move"})
             => \A i \in 1..Len(game.world.snakes) :
                   /\ i <= Len(game'.world.snakes)
                   /\ game'.world.snakes[i].Segments = game.world.snakes[i].Segments]_vars
    /\ [][game'.world.totalKills # game.world.totalKills
             => game.moved = game.world.frame /\ game.pc = "collide"]_vars
    /\ [][(Len(game'.world.foods) > Len(game.world.foods)
              /\ game'.world.totalKills = game.world.totalKills
              /\ game.pc # "move")
             => game.collided = game.world.frame]_vars
    /\ [][game'.sent # game.sent
             => /\ game.fed = game.world.frame
                /\ game.collided = game.world.frame
                /\ game'.sent = Shown(game'.world)
                /\ Len(game'.sent.foods) >= FoodCount]_vars

\* Witness of C39: a tick that began with a message pending has received
\* it, a later tick had a kill, and the frame broadcast in that tick shows
\* the dead snake and its pellets.
C39_Witness ==
    /\ game.pc = "wait"
    /\ game.sent.frame = game.world.frame
    /\ game.world.ev.killed # {}
    /\ \E i \in 1..Len(game.sent.snakes) :
          /\ game.sent.snakes[i].PlayerID \in game.world.ev.killed
          /\ ~game.sent.snakes[i].alive
    /\ Len(game.sent.foods) > FoodCount
    /\ game.joined # {}

\* ------------------------------------------------------------------------
\* One connection, write by write (HandleWS, readPump, writePump)
\* ------------------------------------------------------------------------
\* In this scenario the variable game holds one connection: the position of
\* its handler (hpc: HandleWS with readPump) and of its writer (wpc:
\* writePump), the tasks that are inside conn.WriteMessage (writing), the
\* messages the connection has carried (wire), its queue (sendCh), the
\* channels to the tick task, its entry in g.players (inPlayers), and
\* counters: joins sent and processed, frames enqueued, broadcasts, pings.
\* A connection may break at any time (broken); a write to a broken
\* connection fails.
InitConn ==
    /\ InitSessions
    /\ game = [hpc |-> "welcome", wpc |-> "none", writing |-> {},
               cur |-> "none", wire |-> << >>, sendCh |-> << >>,
               joinCh |-> 0, leaveCh |-> 0, done |-> FALSE, broken |-> FALSE,
               inPlayers |-> FALSE, joins |-> 0, processed |-> 0,
               enqueued |-> 0, casts |-> 0, pings |-> 0]

\* The client or the network ends the connection.
ConnBreak ==
    /\ ~game.broken
    /\ game' = [game EXCEPT !.broken = TRUE]
    /\ UNCHANGED sessionVars

\* HandleWS: conn.WriteMessage(websocket.TextMessage, welcome) is entered.
WelcomeBegin ==
    /\ game.hpc = "welcome"
    /\ game' = [game EXCEPT !.hpc = "inWelcome", !.writing = @ \cup {"handler"}]
    /\ UNCHANGED sessionVars

\* HandleWS: the write of the welcome returns; its error is not looked at.
WelcomeEnd ==
    /\ game.hpc = "inWelcome"
    /\ game' = [game EXCEPT
                  !.hpc = "spawn",
                  !.writing = @ \ {"handler"},
                  !.wire = IF game.broken THEN @ ELSE Append(@, "welcome")]
    /\ UNCHANGED sessionVars

\* HandleWS: go p.writePump(), then p.readPump(game).
StartPumps ==
    /\ game.hpc = "spawn"
    /\ game' = [game EXCEPT !.hpc = "reading", !.wpc = "select"]
    /\ UNCHANGED sessionVars

\* readPump: a join is read and the Player is sent on joinCh.
ConnReadJoin ==
    /\ game.hpc = "reading"
    /\ ~game.broken
    /\ game.joins < ConnJoins
    /\ game' = [game EXCEPT !.joinCh = @ + 1, !.joins = @ + 1]
    /\ UNCHANGED sessionVars

\* readPump returns on a read error (a broken connection, a frame over the
\* read limit, the read deadline); HandleWS closes done, sends the id on
\* leaveCh and closes the connection.
ConnCleanup ==
    /\ game.hpc = "reading"
    /\ game' = [game EXCEPT !.hpc = "closed", !.done = TRUE, !.leaveCh = @ + 1]
    /\ UNCHANGED sessionVars

\* handleJoin: the Player enters g.players and its first frame is offered
\* to its queue.
ConnHandleJoin ==
    /\ game.joinCh > 0
    /\ game' = [game EXCEPT
                  !.joinCh = @ - 1,
                  !.inPlayers = TRUE,
                  !.processed = @ + 1,
                  !.sendCh = IF Len(@) < SendChCap THEN Append(@, "state") ELSE @,
                  !.enqueued = IF Len(game.sendCh) < SendChCap THEN @ + 1 ELSE @]
    /\ UNCHANGED sessionVars

\* handleLeave: an id that is in g.players is deleted from it.
ConnHandleLeave ==
    /\ game.leaveCh > 0
    /\ game' = [game EXCEPT !.leaveCh = @ - 1, !.inPlayers = FALSE]
    /\ UNCHANGED sessionVars

\* A broadcast that goes to every connection that is open.
broadcastToOpen(c) == c.hpc = "reading"

\* broadcast: the loop goes over g.players, past a Player without a snake.
broadcastTo(c) == c.inPlayers

ConnBroadcast ==
    /\ game.casts < ConnBroadcasts
    /\ game' = [game EXCEPT
                  !.casts = @ + 1,
                  !.sendCh = IF broadcastTo(game) /\ Len(@) < SendChCap
                             THEN Append(@, "state") ELSE @,
                  !.enqueued = IF broadcastTo(game) /\ Len(game.sendCh) < SendChCap
                               THEN @ + 1 ELSE @]
    /\ UNCHANGED sessionVars

\* writePump, case msg := <-p.sendCh: conn.WriteMessage is entered.
WriteBegin ==
    /\ game.wpc = "select"
    /\ game.sendCh # << >>
    /\ game' = [game EXCEPT !.sendCh = Tail(@), !.cur = Head(game.sendCh),
                            !.wpc = "inWrite", !.writing = @ \cup {"writer"}]
    /\ UNCHANGED sessionVars

\* writePump, case <-pingTicker.C: conn.WriteMessage is entered.
PingBegin ==
    /\ game.wpc = "select"
    /\ game.pings < ConnPings
    /\ game' = [game EXCEPT !.pings = @ + 1, !.cur = "ping",
                            !.wpc = "inWrite", !.writing = @ \cup {"writer"}]
    /\ UNCHANGED sessionVars

\* writePump: the write returns; on an error the writer returns.
WriteEnd ==
    /\ game.wpc = "inWrite"
    /\ game' = [game EXCEPT
                  !.writing = @ \ {"writer"},
                  !.cur = "none",
                  !.wire = IF game.broken \/ game.hpc = "closed" THEN @
                           ELSE Append(@, game.cur),
                  !.wpc = IF game.broken \/ game.hpc = "closed" THEN "exit"
                          ELSE "select"]
    /\ UNCHANGED sessionVars

\* writePump, case <-p.done.
ConnWriterExit ==
    /\ game.wpc = "select"
    /\ game.done
    /\ game' = [game EXCEPT !.wpc = "exit"]
    /\ UNCHANGED sessionVars

NextConn ==
    \/ ConnBreak
    \/ WelcomeBegin
    \/ WelcomeEnd
    \/ StartPumps
    \/ ConnReadJoin
    \/ ConnCleanup
    \/ ConnHandleJoin
    \/ ConnHandleLeave
    \/ ConnBroadcast
    \/ WriteBegin
    \/ PingBegin
    \/ WriteEnd
    \/ ConnWriterExit

SpecConn == InitConn /\ [][NextConn]_vars

Welcomes(w) == Cardinality({k \in 1..Len(w) : w[k] = "welcome"})

\* C40: on a connection the welcome is the first message written and is
\* written once (on a connection that has not broken before the write, it
\* is there when the write has returned); no state frame is enqueued for
\* a session before the tick task has processed its join; and at no time
\* are two tasks writing to the connection.
C40_WelcomeFirstOneWriter ==
    /\ game.wire # << >> => game.wire[1] = "welcome"
    /\ Welcomes(game.wire) <= 1
    /\ (game.hpc \notin {"welcome", "inWelcome"} /\ ~game.broken)
          => Welcomes(game.wire) = 1
    /\ (game.enqueued > 0 \/ game.sendCh # << >>) => game.processed > 0
    /\ \A k \in 1..Len(game.wire) :
          game.wire[k] = "state" => game.processed > 0
    /\ Cardinality(game.writing) <= 1

\* Witness of C40: the welcome, a state frame and a ping are on the wire,
\* the writer is inside a further write while the reader is reading, and a
\* broadcast before the join was processed has enqueued nothing.
C40_Witness ==
    /\ game.wire = <<"welcome", "state", "ping">>
    /\ game.writing = {"writer"}
    /\ game.hpc = "reading"
    /\ game.casts > game.enqueued

====
